---- MODULE Spec2Model ----
(***************************************************************************)
(* AgroSmart V5 command lifecycle: the schedule evaluator / command issuer *)
(* (AgroSmart_Scheduler_Logic.py) and the acknowledgment normalizer        *)
(* (AgroSmart_V5_AckToFirestore.py), over the Firestore command store, the *)
(* per-device history collection and the IoT downlink.                     *)
(*                                                                         *)
(* Firestore documents are functions from field names to values; a field   *)
(* that is absent is absent from the domain (Python's dict.get -> None).   *)
(* A collection is a function from document paths to documents.            *)
(***************************************************************************)
EXTENDS Integers, Sequences, FiniteSets, Bags, TLC

VARIABLES
    clock,      \* wall clock, seconds since local Monday 00:00:00
    cmds,       \* devices/<device>/commands/<command_id>  (path -> document)
    history,    \* devices/<device>/history: .docs, the documents written under a
                \* chosen id (path -> document); .added, the bag of documents
                \* added under auto-generated ids
    published,  \* bag of payloads handed to iot_client.publish
    sched,      \* scheduler invocations: locals of lambda_handler, by invocation
    tickSeq,    \* number of scheduler ticks started so far
    creators,   \* command path -> the ticks whose create() succeeded
    lastAck,    \* the last acknowledgment processed and the handler's return
    idq,        \* command identity: two (schedule, time) inputs and their identifiers
    man         \* HTTP requests (command and telemetry): locals of lambda_handler

vars == <<clock, cmds, history, published, sched, tickSeq, creators, lastAck, idq, man>>

\* What no scheduler step writes, and what no acknowledgment step writes.
notSched == <<clock, lastAck, idq, man>>
notAck == <<clock, published, sched, tickSeq, creators, idq, man>>

----------------------------------------------------------------------------
(* Bounds of the model *)

\* Wednesday 06:00:00 local time, in seconds since Monday 00:00:00.
ClockStart == 194400
\* One advance of the wall clock, in seconds.
ClockStep == 30
\* The wall clock advances at most this many times.
MaxAdvances == 2
\* Inbound events the normalizer handles per behaviour.
MaxAcks == 3
\* Reports with a reason the normalizer handles per behaviour.
MaxReasonAcks == 2
\* Reports, ClockStep seconds apart, the normalizer handles per behaviour.
MaxTimedAcks == 3
\* Reports with ok / error values the normalizer handles per behaviour.
MaxResultAcks == 2
\* Scheduler ticks started per behaviour.
MaxTicks == 2

----------------------------------------------------------------------------
(* Program constants *)

TELEMETRY_MAX_AGE_SEC == 180
RAIN_SKIP_PROB == 70

----------------------------------------------------------------------------
(* Documents *)

Has(doc, k) == k \in DOMAIN doc

\* DocumentReference.set(data) without merge: the document is replaced.
SetMerge_Replace(col, path, data) == (path :> data) @@ col

\* DocumentReference.set(data, merge=True): the fields of data replace or are
\* added to those of the stored document; every other field is kept.
SetMerge(col, path, data) ==
    IF path \in DOMAIN col
    THEN [col EXCEPT ![path] = data @@ col[path]]
    ELSE (path :> data) @@ col

Exists(col, path) == path \in DOMAIN col

EmptyCol == [x \in {} |-> x]

EmptyHistory == [docs |-> EmptyCol, added |-> EmptyBag]

----------------------------------------------------------------------------
(* Local time *)

\* datetime.weekday() + 1 : 1 = Monday .. 7 = Sunday
Weekday(t) == ((t \div 86400) % 7) + 1

\* now_local.strftime("%H:%M")
HHMM(t) == <<(t % 86400) \div 3600, (t % 3600) \div 60>>

\* Mutant: the key keeps the seconds ("%Y%m%d%H%M%S").
MinuteKey_WithSeconds(t) ==
    <<t \div 86400, (t % 86400) \div 3600, (t % 3600) \div 60, t % 60>>

\* now_local.strftime("%Y%m%d%H%M"): the calendar day, the hour and the minute;
\* the seconds are not part of the key.
MinuteKey(t) == <<t \div 86400, (t % 86400) \div 3600, (t % 3600) \div 60>>

----------------------------------------------------------------------------
(* Command identity *)

\* sha1(raw).hexdigest()[:16], treated as injective: the digest of a text is
\* the text itself.
Sha1_16(raw) == raw

\* Mutant: the schedule identifier is left out of the hashed text.
build_command_id_NoSchedule(schedule_id, now_local) ==
    <<"sched-", Sha1_16(<<":", MinuteKey(now_local)>>)>>

\* build_command_id: "sched-" + sha1(schedule_id + ":" + minute_key)[:16]
build_command_id(schedule_id, now_local) ==
    <<"sched-", Sha1_16(<<schedule_id, ":", MinuteKey(now_local)>>)>>

\* build_device_command_topic
build_device_command_topic(device_id) == <<"agrosmart/v5", device_id, "command">>

----------------------------------------------------------------------------
(* External collaborators, read-only to the core *)

\* The schedules collection group (authored externally).
ScheduleDocs ==
    ("s1" :> [device |-> "d1", enabled |-> TRUE, days |-> {3}, time |-> <<6, 0>>,
              duration_minutes |-> 20, label |-> "A"])
    @@ ("s2" :> [device |-> "d2", enabled |-> TRUE, days |-> {1, 3}, time |-> <<6, 1>>,
                 duration_minutes |-> 0, label |-> "B"])
    @@ ("s3" :> [device |-> "d3", enabled |-> TRUE, days |-> {3}, time |-> <<6, 1>>,
                 duration_minutes |-> 5, label |-> "C"])
    @@ ("s4" :> [device |-> "d1", enabled |-> FALSE, days |-> {3}, time |-> <<6, 0>>,
                 duration_minutes |-> 5, label |-> "D"])

\* The order in which the query streams the schedule documents.
ScheduleOrder == <<"s1", "s2", "s3", "s4">>

\* The device documents: d3 has schedules but no device document.
DeviceDocs ==
    ("d1" :> [target_soil_moisture |-> 60, enable_weather_control |-> FALSE,
              latitude |-> 0, longitude |-> 0, owner_uid |-> "u1"])
    @@ ("d2" :> [target_soil_moisture |-> 60, enable_weather_control |-> TRUE,
                 latitude |-> 23, longitude |-> 46, owner_uid |-> "u2"])

\* A raw attribute of a telemetry row: absent, a number or a text.
RawNone == [kind |-> "none", n |-> 0]
RawNum(x) == [kind |-> "num", n |-> x]
RawStr == [kind |-> "str", n |-> 0]

\* What table.query(..., ScanIndexForward=False, Limit=1) can answer at time
\* now: an error, no row, or the newest row with its timestamp (RangeKey) and
\* sensors.soil_moisture.
TelemetryResponses(now) ==
    { [err |-> TRUE, rows |-> 0, ts |-> RawNone, moisture |-> RawNone],
      [err |-> FALSE, rows |-> 0, ts |-> RawNone, moisture |-> RawNone],
      [err |-> FALSE, rows |-> 1, ts |-> RawNum(now - 10), moisture |-> RawNone],
      [err |-> FALSE, rows |-> 1, ts |-> RawNum(now - 10), moisture |-> RawStr],
      [err |-> FALSE, rows |-> 1, ts |-> RawNone, moisture |-> RawNum(40)],
      [err |-> FALSE, rows |-> 1, ts |-> RawStr, moisture |-> RawNum(40)],
      [err |-> FALSE, rows |-> 1, ts |-> RawNum(0), moisture |-> RawNum(40)],
      [err |-> FALSE, rows |-> 1, ts |-> RawNum(now - (TELEMETRY_MAX_AGE_SEC + 1)),
       moisture |-> RawNum(40)],
      [err |-> FALSE, rows |-> 1, ts |-> RawNum(now - TELEMETRY_MAX_AGE_SEC),
       moisture |-> RawNum(40)],
      [err |-> FALSE, rows |-> 1, ts |-> RawNum(now - 10), moisture |-> RawNum(60)] }

\* What the forecast source can answer: a failure (network error, timeout,
\* a body that is not JSON) or a parsed body with its
\* hourly.precipitation_probability list (empty when the key is missing),
\* whose entries are numbers, nulls or texts.
ForecastResponses ==
    { [err |-> TRUE, probs |-> << >>],
      [err |-> FALSE, probs |-> << >>],
      [err |-> FALSE, probs |-> <<RawNum(10), RawNum(69)>>],
      [err |-> FALSE, probs |-> <<RawNum(70), RawNum(10)>>],
      [err |-> FALSE, probs |-> <<RawNone, RawNum(70)>>],
      [err |-> FALSE, probs |-> <<RawNone, RawNone>>],
      [err |-> FALSE, probs |-> <<RawNum(90), RawStr>>] }

----------------------------------------------------------------------------
(* Telemetry Gate *)

NoneVal == [ok |-> FALSE, val |-> 0]
SomeVal(x) == [ok |-> TRUE, val |-> x]

\* ts_int = int(ts_raw), None when absent or not a number
TsInt(resp) == IF resp.ts.kind = "num" THEN SomeVal(resp.ts.n) ELSE NoneVal

\* age = (now - ts_int) if ts_int else None
TelemetryAge(resp, now) ==
    IF TsInt(resp).ok /\ TsInt(resp).val # 0
    THEN SomeVal(now - TsInt(resp).val)
    ELSE NoneVal

\* Mutant: the anti-stale check is missing.
get_latest_soil_moisture_NoAgeCheck(resp, now, max_age_sec) ==
    IF resp.err THEN NoneVal
    ELSE IF resp.rows = 0 THEN NoneVal
    ELSE IF resp.moisture.kind # "num" THEN NoneVal
    ELSE SomeVal(resp.moisture.n)

\* A telemetry gate that reads a missing or unreadable row as dry soil.
get_latest_soil_moisture_FailOpen(resp, now, max_age_sec) ==
    IF resp.err \/ resp.rows = 0 \/ resp.moisture.kind # "num" THEN SomeVal(0)
    ELSE IF ~TelemetryAge(resp, now).ok THEN SomeVal(resp.moisture.n)
    ELSE IF TelemetryAge(resp, now).val > max_age_sec THEN NoneVal
    ELSE SomeVal(resp.moisture.n)

\* get_latest_soil_moisture: the moisture value, or None
get_latest_soil_moisture(resp, now, max_age_sec) ==
    IF resp.err THEN NoneVal                       \* except Exception
    ELSE IF resp.rows = 0 THEN NoneVal             \* not items
    ELSE IF resp.moisture.kind = "none" THEN NoneVal
    ELSE IF resp.moisture.kind = "str" THEN NoneVal  \* float() raises
    ELSE IF ~TelemetryAge(resp, now).ok THEN NoneVal
    ELSE IF TelemetryAge(resp, now).val > max_age_sec THEN NoneVal
    ELSE SomeVal(resp.moisture.n)

----------------------------------------------------------------------------
(* Weather Gate *)

\* max([int(x) for x in probs if x is not None] or [0])
RECURSIVE MaxOf(_)
MaxOf(probs) ==
    IF probs = << >> THEN 0
    ELSE IF Head(probs).kind = "none" THEN MaxOf(Tail(probs))
    ELSE IF Head(probs).n > MaxOf(Tail(probs)) THEN Head(probs).n ELSE MaxOf(Tail(probs))

\* A weather gate that skips when the forecast cannot be read.
check_rain_forecast_FailClosed(resp) ==
    IF resp.err \/ \E i \in DOMAIN resp.probs : resp.probs[i].kind = "str"
    THEN [skip |-> TRUE, reason |-> <<"Falha ao consultar clima">>]
    ELSE IF resp.probs = << >> THEN [skip |-> TRUE, reason |-> <<"Sem dados de precipitacao">>]
    ELSE IF MaxOf(resp.probs) >= RAIN_SKIP_PROB
         THEN [skip |-> TRUE, reason |-> <<"Alta chance de chuva", MaxOf(resp.probs)>>]
         ELSE [skip |-> FALSE, reason |-> <<"Chance de chuva aceitavel", MaxOf(resp.probs)>>]

\* check_rain_forecast: (skip, reason). Every exception (the request, the
\* JSON parse, int() of an entry that is not a number) ends in the except
\* branch.
check_rain_forecast(resp) ==
    IF resp.err \/ \E i \in DOMAIN resp.probs : resp.probs[i].kind = "str"
    THEN [skip |-> FALSE, reason |-> <<"Falha ao consultar clima">>]
    ELSE IF resp.probs = << >> THEN [skip |-> FALSE, reason |-> <<"Sem dados de precipitacao">>]
    ELSE IF MaxOf(resp.probs) >= RAIN_SKIP_PROB
         THEN [skip |-> TRUE, reason |-> <<"Alta chance de chuva", MaxOf(resp.probs)>>]
         ELSE [skip |-> FALSE, reason |-> <<"Chance de chuva aceitavel", MaxOf(resp.probs)>>]

----------------------------------------------------------------------------
(* Firestore: command document and history log (scheduler) *)

CmdPath(device_id, command_id) == <<device_id, command_id>>
LogPath(device_id, command_id) == <<device_id, <<"log-", command_id>>>>
AckPath(device_id, command_id) == <<device_id, <<"cmd-", command_id>>>>

\* The document create_command_document writes.
ScheduleCommandDoc(device_id, command_id, action, duration_s, origin, schedule_id, schedule_label, now_local, now_server) ==
    [device_id |-> device_id,
     command_id |-> command_id,
     origin |-> origin,
     status |-> "pending",
     last_status |-> "pending",
     requested_action |-> action,
     requested_duration |-> duration_s,
     action |-> action,
     duration |-> duration_s,
     created_at |-> now_server,
     updated_at |-> now_server,
     schedule |-> [id |-> schedule_id, label |-> schedule_label,
                   local_time |-> now_local],
     mqtt |-> [topic |-> build_device_command_topic(device_id), qos |-> 1],
     schema_version |-> 1]

\* Mutant: the insert is not conditional on the path being free.
FirestoreCreate_Unconditional(col, path, doc) ==
    [ok |-> TRUE, col |-> (path :> doc) @@ col]

\* DocumentReference.create(doc): inserts the document if the path is free
\* (ok), and raises AlreadyExists, leaving the store as it is, otherwise.
FirestoreCreate(col, path, doc) ==
    IF path \in DOMAIN col
    THEN [ok |-> FALSE, col |-> col]
    ELSE [ok |-> TRUE, col |-> (path :> doc) @@ col]

\* Mutant: cmd_ref.set(doc, merge=True) in place of cmd_ref.create(doc).
create_command_document_SetMerge(col, device_id, command_id, action, duration_s, origin, schedule_id, schedule_label, now_local, now_server) ==
    [ok |-> TRUE,
     col |-> SetMerge(col, CmdPath(device_id, command_id),
                ScheduleCommandDoc(device_id, command_id, action, duration_s, origin,
                                   schedule_id, schedule_label, now_local, now_server))]

\* create_command_document: cmd_ref.create(doc)
create_command_document(col, device_id, command_id, action, duration_s, origin, schedule_id, schedule_label, now_local, now_server) ==
    FirestoreCreate(col, CmdPath(device_id, command_id),
        ScheduleCommandDoc(device_id, command_id, action, duration_s, origin,
                           schedule_id, schedule_label, now_local, now_server))

\* The document save_history_log writes: the fields that are None are dropped.
\* The server-time fields timestamp and updated_at are left out of the model:
\* every write sets both and nothing reads them.
HistoryDoc(device_id, log_type, source, message, command_id, extra, now_server) ==
    [type |-> log_type, source |-> source, device_id |-> device_id,
     message |-> message]
    @@ (IF command_id.ok THEN [command_id |-> command_id.val] ELSE EmptyCol)
    @@ (IF extra.ok THEN [extra |-> extra.val] ELSE EmptyCol)

\* CollectionReference.add(doc): a new document under an auto-generated id.
FirestoreAdd(hist, doc) == [hist EXCEPT !.added = @ (+) SetToBag({doc})]

\* save_history_log: ref.document("log-<command_id>").set(doc, merge=True) when
\* a command identifier is given, ref.add(doc) otherwise.
save_history_log(hist, device_id, log_type, source, message, command_id, extra, now_server) ==
    IF command_id.ok
    THEN [hist EXCEPT !.docs = SetMerge(@, LogPath(device_id, command_id.val),
                          HistoryDoc(device_id, log_type, source, message, command_id,
                                     extra, now_server))]
    ELSE FirestoreAdd(hist, HistoryDoc(device_id, log_type, source, message, command_id,
                                       extra, now_server))

\* The downlink payload of a scheduled command.
SchedulePayload(device_id, command_id, duration_s, schedule_id) ==
    [device_id |-> device_id, command_id |-> command_id, action |-> "on",
     duration |-> duration_s, origin |-> "schedule", schedule_id |-> schedule_id]

----------------------------------------------------------------------------
(* Schedule Evaluator / Command Issuer: lambda_handler of the scheduler *)

\* The scheduler invocations that can be running at the same time; one that
\* has returned can be invoked again for a later tick.
Invocations == {"i1", "i2"}

ScheduleIds == DOMAIN ScheduleDocs

\* The query: enabled == True, days array_contains weekday, time == "HH:MM".
ScheduleMatches(sid, now_local) ==
    /\ ScheduleDocs[sid].enabled
    /\ Weekday(now_local) \in ScheduleDocs[sid].days
    /\ ScheduleDocs[sid].time = HHMM(now_local)

MatchedSchedules(now_local) ==
    SelectSeq(ScheduleOrder, LAMBDA sid : ScheduleMatches(sid, now_local))

IdleInvocation ==
    [pc |-> "idle", tick |-> 0, now_local |-> 0, queue |-> << >>,
     executed |-> 0, skipped |-> 0, duplicates |-> 0, errors |-> 0,
     schedule_id |-> "none", gate |-> "none", tele_age |-> NoneVal,
     resp |-> NoneVal, moisture |-> NoneVal, forecast |-> NoneVal,
     raised |-> "none", out |-> [sid \in ScheduleIds |-> "none"], pubs |-> {},
     statusCode |-> 0]

\* Locals of the loop body for the schedule at the head of the stream.
CurSchedule(p) == Head(sched[p].queue)
CurDevice(p) == ScheduleDocs[CurSchedule(p)].device
CurLabel(p) == ScheduleDocs[CurSchedule(p)].label
\* duration_s = int(schedule.get("duration_minutes", 5)) * 60
CurDuration(p) == ScheduleDocs[CurSchedule(p)].duration_minutes * 60
CurCommandId(p) == build_command_id(CurSchedule(p), sched[p].now_local)
CurCmdPath(p) == CmdPath(CurDevice(p), CurCommandId(p))

\* "continue": the schedule is finished with the given outcome.
Continue(rec, outcome) ==
    [rec EXCEPT !.queue = Tail(@), !.pc = "loop",
                !.out = [@ EXCEPT ![Head(rec.queue)] = outcome]]

\* The tick starts: now_local is read and the due schedules are queried.
TickStart(p) ==
    /\ sched[p].pc \in {"idle", "done"}
    /\ tickSeq < MaxTicks
    /\ p = "i2" => sched["i1"].pc # "idle"
    /\ tickSeq' = tickSeq + 1
    /\ sched' = [sched EXCEPT ![p] =
                   [IdleInvocation EXCEPT !.pc = "loop", !.tick = tickSeq + 1,
                                          !.now_local = clock,
                                          !.queue = MatchedSchedules(clock)]]
    /\ UNCHANGED <<notSched, cmds, history, published, creators>>

\* device_doc.exists is false: errors += 1; continue
EvalDeviceMissing(p) ==
    /\ sched[p].pc = "loop" /\ sched[p].queue # << >>
    /\ CurDevice(p) \notin DOMAIN DeviceDocs
    /\ sched' = [sched EXCEPT ![p] =
                   Continue([@ EXCEPT !.errors = @ + 1, !.schedule_id = CurSchedule(p),
                                       !.gate = "no_device", !.tele_age = NoneVal,
                                       !.resp = NoneVal, !.moisture = NoneVal,
                                       !.forecast = NoneVal],
                            "no_device")]
    /\ UNCHANGED <<notSched, tickSeq, cmds, history, published, creators>>

\* A threshold gate that lets a reading equal to the target through.
MoistureReachesTarget_Strict(current_moisture, target_moisture) == current_moisture > target_moisture

\* "if current_moisture >= target_moisture": the soil is already at target.
MoistureReachesTarget(current_moisture, target_moisture) == current_moisture >= target_moisture

\* The gates of one schedule: telemetry (fail-closed), threshold, weather.
\* The outcome is "telemetry", "threshold", "weather" (skips) or "proceed".
GateOutcome(device_id, resp, forecast, now) ==
    LET settings == DeviceDocs[device_id]
        current_moisture == get_latest_soil_moisture(resp, now, TELEMETRY_MAX_AGE_SEC)
    IN  IF ~current_moisture.ok THEN "telemetry"
        ELSE IF MoistureReachesTarget(current_moisture.val, settings.target_soil_moisture)
             THEN "threshold"
        ELSE IF settings.enable_weather_control /\ check_rain_forecast(forecast).skip
             THEN "weather"
        ELSE "proceed"

SkipMessage(outcome, resp, device_id, forecast) ==
    CASE outcome = "telemetry" -> <<"Ignorado: Telemetria indisponivel/antiga">>
      [] outcome = "threshold" ->
            <<"Ignorado: Solo em", resp.moisture.n, DeviceDocs[device_id].target_soil_moisture>>
      [] OTHER -> <<"Cancelado:", check_rain_forecast(forecast).reason>>

SkipExtra(outcome, resp, device_id) ==
    CASE outcome = "telemetry" ->
            SomeVal([telemetry_max_age_sec |-> TELEMETRY_MAX_AGE_SEC])
      [] outcome = "threshold" ->
            SomeVal([soil_moisture |-> resp.moisture.n,
                     target_moisture |-> DeviceDocs[device_id].target_soil_moisture])
      [] OTHER -> NoneVal

\* One schedule is evaluated against the gates; a skip writes its history
\* entry and counts skipped, a proceed goes on to the Command Issuer.
Evaluate(p) ==
    /\ sched[p].pc = "loop" /\ sched[p].queue # << >>
    /\ CurDevice(p) \in DOMAIN DeviceDocs
    /\ \E resp \in TelemetryResponses(clock), forecast \in ForecastResponses :
         LET outcome == GateOutcome(CurDevice(p), resp, forecast, clock)
             seen == [sched[p] EXCEPT !.schedule_id = CurSchedule(p), !.gate = outcome,
                                      !.tele_age = TelemetryAge(resp, clock)]
         IN  IF outcome = "proceed"
             THEN /\ sched' = [sched EXCEPT ![p] = [seen EXCEPT !.pc = "create"]]
                  /\ UNCHANGED history
             ELSE /\ sched' = [sched EXCEPT ![p] =
                                 Continue([seen EXCEPT !.skipped = @ + 1], "skipped")]
                  /\ history' = save_history_log(history, CurDevice(p), "skipped",
                                    IF outcome = "weather" THEN "weather_ai" ELSE "schedule",
                                    SkipMessage(outcome, resp, CurDevice(p), forecast),
                                    NoneVal, SkipExtra(outcome, resp, CurDevice(p)), clock)
    /\ UNCHANGED <<notSched, tickSeq, cmds, published, creators>>

\* create_command_document succeeded: the record is in the store.
CreateCommand(p) ==
    /\ sched[p].pc = "create"
    /\ LET r == create_command_document(cmds, CurDevice(p), CurCommandId(p), "on",
                    CurDuration(p), "schedule", CurSchedule(p), CurLabel(p),
                    sched[p].now_local, clock)
       IN  /\ cmds' = r.col
           /\ IF r.ok
              THEN /\ sched' = [sched EXCEPT ![p].pc = "publish"]
                   /\ creators' = [creators EXCEPT ![CurCmdPath(p)] = @ \cup {sched[p].tick}]
              ELSE \* except AlreadyExists: duplicates += 1
                   /\ sched' = [sched EXCEPT ![p].pc = "dup_history",
                                             ![p].duplicates = @ + 1]
                   /\ UNCHANGED creators
    /\ UNCHANGED <<notSched, tickSeq, history, published>>

\* An issuer that logs a failed create and publishes all the same.
CreateCommandFails_ThenPublish(p) ==
    /\ sched[p].pc = "create"
    /\ sched' = [sched EXCEPT ![p].pc = "publish", ![p].raised = "create"]
    /\ UNCHANGED <<notSched, tickSeq, cmds, history, published, creators>>

\* create() raises another exception (store error): errors += 1
CreateCommandFails(p) ==
    /\ sched[p].pc = "create"
    /\ sched' = [sched EXCEPT ![p].pc = "err_history", ![p].errors = @ + 1,
                              ![p].raised = "create"]
    /\ UNCHANGED <<notSched, tickSeq, cmds, history, published, creators>>

\* save_history_log(..., "duplicate", ..., command_id=command_id); continue
DuplicateHistory(p) ==
    /\ sched[p].pc = "dup_history"
    /\ history' = save_history_log(history, CurDevice(p), "duplicate", "schedule",
                      <<"Duplicado (retry) no mesmo minuto.">>,
                      SomeVal(CurCommandId(p)), NoneVal, clock)
    /\ sched' = [sched EXCEPT ![p] = Continue(@, "duplicate")]
    /\ UNCHANGED <<notSched, tickSeq, cmds, published, creators>>

\* publish_iot_command returned
PublishCommand(p) ==
    /\ sched[p].pc = "publish"
    /\ published' = published (+) SetToBag({SchedulePayload(CurDevice(p), CurCommandId(p),
                                                CurDuration(p), CurSchedule(p))})
    /\ sched' = [sched EXCEPT ![p].pc = "exec_history",
                              ![p].pubs = @ \cup {CurCmdPath(p)}]
    /\ UNCHANGED <<notSched, tickSeq, cmds, history, creators>>

\* publish_iot_command raised: errors += 1
PublishFails(p) ==
    /\ sched[p].pc = "publish"
    /\ sched' = [sched EXCEPT ![p].pc = "err_history", ![p].errors = @ + 1,
                              ![p].raised = "publish"]
    /\ UNCHANGED <<notSched, tickSeq, cmds, history, published, creators>>

\* save_history_log(..., "execution", ...); executed += 1
ExecutionHistory(p) ==
    /\ sched[p].pc = "exec_history"
    /\ history' = save_history_log(history, CurDevice(p), "execution", "schedule",
                      <<"Executado:", CurLabel(p), CurDuration(p) \div 60>>,
                      SomeVal(CurCommandId(p)),
                      SomeVal([mqtt_topic |-> build_device_command_topic(CurDevice(p))]),
                      clock)
    /\ sched' = [sched EXCEPT ![p] = Continue([@ EXCEPT !.executed = @ + 1], "executed")]
    /\ UNCHANGED <<notSched, tickSeq, cmds, published, creators>>

\* except Exception: save_history_log(..., "error", "system", ...)
ErrorHistory(p) ==
    /\ sched[p].pc = "err_history"
    /\ history' = save_history_log(history, CurDevice(p), "error", "system",
                      <<"Falha ao enviar comando:">>,
                      SomeVal(CurCommandId(p)), NoneVal, clock)
    /\ sched' = [sched EXCEPT ![p] =
                   Continue(@, CASE @.raised = "create" -> "create_error"
                                 [] @.raised = "publish" -> "publish_error"
                                 [] OTHER -> "history_error")]
    /\ UNCHANGED <<notSched, tickSeq, cmds, published, creators>>

\* The stream is exhausted: the counters are returned with statusCode 200.
TickReturn(p) ==
    /\ sched[p].pc = "loop" /\ sched[p].queue = << >>
    /\ sched' = [sched EXCEPT ![p].pc = "done", ![p].statusCode = 200,
                              ![p].schedule_id = "none", ![p].gate = "none",
                              ![p].tele_age = NoneVal, ![p].raised = "none",
                              ![p].resp = NoneVal, ![p].moisture = NoneVal,
                              ![p].forecast = NoneVal]
    /\ UNCHANGED <<notSched, tickSeq, cmds, history, published, creators>>

\* Time passes.
Advance ==
    /\ clock < ClockStart + MaxAdvances * ClockStep
    /\ clock' = clock + ClockStep
    /\ UNCHANGED <<cmds, history, published, sched, tickSeq, creators, lastAck, idq, man>>

NoIdQuery == [sa |-> "none", ta |-> 0, sb |-> "none", tb |-> 0,
              ida |-> << >>, idb |-> << >>, done |-> FALSE]

CmdPaths ==
    { CmdPath(ScheduleDocs[sid].device, build_command_id(sid, t)) :
        sid \in ScheduleIds, t \in { ClockStart + i * ClockStep : i \in 0..MaxAdvances } }

\* The invocations of the HTTP handlers, and one that has not started.
Requests == {"r1", "r2", "r3"}

NoBody == [device_id |-> "none", user_id |-> "", action |-> "none", duration |-> 0,
           key |-> "", command_id |-> << >>]

NoResponse == [statusCode |-> 0, methods |-> "none", message |-> "none"]

IdleRequest ==
    [pc |-> "idle", kind |-> "none", body |-> NoBody, command_id |-> << >>,
     issued_at |-> 0, owner_store |-> "none", created_new |-> FALSE,
     existing_status |-> "None", store_failed |-> FALSE, pubs |-> 0,
     response |-> NoResponse]

NoRequests == [r \in Requests |-> IdleRequest]

\* No event handled yet by the acknowledgment normalizer.
NoAck == [n |-> 0, event |-> EmptyCol, ok |-> FALSE, error |-> "none",
          persisted |-> FALSE, repeated |-> FALSE, device_id |-> "", command_id |-> "", status |-> ""]

Init ==
    /\ clock = ClockStart
    /\ cmds = EmptyCol
    /\ history = EmptyHistory
    /\ published = EmptyBag
    /\ sched = [p \in Invocations |-> IdleInvocation]
    /\ tickSeq = 0
    /\ creators = [path \in CmdPaths |-> {}]
    /\ lastAck = NoAck
    /\ idq = NoIdQuery
    /\ man = NoRequests

SchedStep(p) ==
    \/ TickStart(p)
    \/ EvalDeviceMissing(p)
    \/ Evaluate(p)
    \/ CreateCommand(p)
    \/ CreateCommandFails(p)
    \/ DuplicateHistory(p)
    \/ PublishCommand(p)
    \/ PublishFails(p)
    \/ ExecutionHistory(p)
    \/ ErrorHistory(p)
    \/ TickReturn(p)

Next == Advance \/ \E p \in Invocations : SchedStep(p)

Spec == Init /\ [][Next]_vars

----------------------------------------------------------------------------
(* Scheduler: one invocation, the loop body step by step *)

\* An exception that reaches the outer "except Exception" of the handler:
\* the loop is left, the remaining schedules are not evaluated and the
\* invocation returns statusCode 500.
Abort(rec, why) ==
    [rec EXCEPT !.pc = "done", !.statusCode = 500, !.raised = why,
                !.out = [@ EXCEPT ![Head(rec.queue)] = "aborted"], !.queue = Tail(@)]

\* get_firestore_client() raises at the start of the invocation.
TickStartFails(p) ==
    /\ sched[p].pc \in {"idle", "done"}
    /\ tickSeq < MaxTicks
    /\ tickSeq' = tickSeq + 1
    /\ sched' = [sched EXCEPT ![p] =
                   [IdleInvocation EXCEPT !.pc = "done", !.tick = tickSeq + 1,
                                          !.now_local = clock, !.statusCode = 500,
                                          !.raised = "store"]]
    /\ UNCHANGED <<notSched, cmds, history, published, creators>>

\* device_ref.get() returned an existing device: its settings are read.
LoadDevice(p) ==
    /\ sched[p].pc = "loop" /\ sched[p].queue # << >>
    /\ CurDevice(p) \in DOMAIN DeviceDocs
    /\ sched' = [sched EXCEPT ![p] =
                   [@ EXCEPT !.pc = "telemetry", !.schedule_id = CurSchedule(p),
                             !.gate = "none", !.tele_age = NoneVal, !.resp = NoneVal,
                             !.moisture = NoneVal, !.forecast = NoneVal]]
    /\ UNCHANGED <<notSched, tickSeq, cmds, history, published, creators>>

\* device_ref.get() raises, or a setting is not a number.
LoadDeviceRaises(p) ==
    /\ sched[p].pc = "loop" /\ sched[p].queue # << >>
    /\ sched' = [sched EXCEPT ![p] =
                   Abort([@ EXCEPT !.schedule_id = CurSchedule(p),
                                   !.gate = "none", !.tele_age = NoneVal, !.resp = NoneVal,
                                   !.moisture = NoneVal, !.forecast = NoneVal], "device")]
    /\ UNCHANGED <<notSched, tickSeq, cmds, history, published, creators>>

\* The readings of the step-by-step scheduler: those above, a fresh reading
\* above every target, and a reading stamped AheadSec seconds after now (the
\* device clock runs ahead).
WetReading == 75
AheadSec == 30
TelemetryResponsesWithWet(now) ==
    TelemetryResponses(now)
    \cup {[err |-> FALSE, rows |-> 1, ts |-> RawNum(now - 10), moisture |-> RawNum(WetReading)],
          [err |-> FALSE, rows |-> 1, ts |-> RawNum(now + AheadSec), moisture |-> RawNum(40)]}

\* current_moisture = get_latest_soil_moisture(device_id); None skips.
TelemetryGate(p) ==
    /\ sched[p].pc = "telemetry"
    /\ \E resp \in TelemetryResponsesWithWet(clock) :
         LET current_moisture == get_latest_soil_moisture(resp, clock, TELEMETRY_MAX_AGE_SEC)
         IN  sched' = [sched EXCEPT ![p] =
                         [@ EXCEPT !.resp = SomeVal(resp),
                                   !.tele_age = TelemetryAge(resp, clock),
                                   !.moisture = current_moisture,
                                   !.gate = IF current_moisture.ok THEN "none" ELSE "telemetry",
                                   !.pc = IF current_moisture.ok THEN "threshold"
                                          ELSE "skip_history"]]
    /\ UNCHANGED <<notSched, tickSeq, cmds, history, published, creators>>

\* if current_moisture >= target_moisture: skip; then the weather gate when
\* the device enables it, the Command Issuer otherwise.
ThresholdGate(p) ==
    /\ sched[p].pc = "threshold"
    /\ sched' = [sched EXCEPT ![p] =
                   IF MoistureReachesTarget(sched[p].moisture.val,
                                            DeviceDocs[CurDevice(p)].target_soil_moisture)
                   THEN [@ EXCEPT !.gate = "threshold", !.pc = "skip_history"]
                   ELSE IF DeviceDocs[CurDevice(p)].enable_weather_control
                   THEN [@ EXCEPT !.pc = "weather"]
                   ELSE [@ EXCEPT !.gate = "proceed", !.pc = "create"]]
    /\ UNCHANGED <<notSched, tickSeq, cmds, history, published, creators>>

\* An evaluator that consults the forecast and goes on to the Command Issuer
\* whatever it says.
WeatherGate_Ignored(p) ==
    /\ sched[p].pc = "weather"
    /\ \E forecast \in ForecastResponses :
         sched' = [sched EXCEPT ![p] =
                     [@ EXCEPT !.forecast = SomeVal(forecast), !.gate = "proceed",
                               !.pc = "create"]]
    /\ UNCHANGED <<notSched, tickSeq, cmds, history, published, creators>>

\* should_skip, reason = check_rain_forecast(lat, lon)
WeatherGate(p) ==
    /\ sched[p].pc = "weather"
    /\ \E forecast \in ForecastResponses :
         sched' = [sched EXCEPT ![p] =
                     [@ EXCEPT !.forecast = SomeVal(forecast),
                               !.gate = IF check_rain_forecast(forecast).skip
                                        THEN "weather" ELSE "proceed",
                               !.pc = IF check_rain_forecast(forecast).skip
                                      THEN "skip_history" ELSE "create"]]
    /\ UNCHANGED <<notSched, tickSeq, cmds, history, published, creators>>

\* save_history_log(db, device_id, "skipped", ...); skipped += 1; continue
SkipHistory(p) ==
    /\ sched[p].pc = "skip_history"
    /\ history' = save_history_log(history, CurDevice(p), "skipped",
                      IF sched[p].gate = "weather" THEN "weather_ai" ELSE "schedule",
                      SkipMessage(sched[p].gate, sched[p].resp.val, CurDevice(p),
                                  sched[p].forecast.val),
                      NoneVal, SkipExtra(sched[p].gate, sched[p].resp.val, CurDevice(p)),
                      clock)
    /\ sched' = [sched EXCEPT ![p] = Continue([@ EXCEPT !.skipped = @ + 1], "skipped")]
    /\ UNCHANGED <<notSched, tickSeq, cmds, published, creators>>

\* The history write of a skip raises: nothing catches it inside the loop.
SkipHistoryRaises(p) ==
    /\ sched[p].pc = "skip_history"
    /\ sched' = [sched EXCEPT ![p] = Abort(@, "skip_history")]
    /\ UNCHANGED <<notSched, tickSeq, cmds, history, published, creators>>

\* The history write of the duplicate note raises inside "except
\* AlreadyExists": the enclosing "except Exception" counts an error.
DuplicateHistoryRaises(p) ==
    /\ sched[p].pc = "dup_history"
    /\ sched' = [sched EXCEPT ![p].pc = "err_history", ![p].errors = @ + 1,
                              ![p].raised = "dup_history"]
    /\ UNCHANGED <<notSched, tickSeq, cmds, history, published, creators>>

\* The history write of the execution entry raises after the publish.
ExecutionHistoryRaises(p) ==
    /\ sched[p].pc = "exec_history"
    /\ sched' = [sched EXCEPT ![p].pc = "err_history", ![p].errors = @ + 1,
                              ![p].raised = "exec_history"]
    /\ UNCHANGED <<notSched, tickSeq, cmds, history, published, creators>>

\* The history write of the error entry raises inside "except Exception".
ErrorHistoryRaises(p) ==
    /\ sched[p].pc = "err_history"
    /\ sched' = [sched EXCEPT ![p] = Abort(@, "err_history")]
    /\ UNCHANGED <<notSched, tickSeq, cmds, history, published, creators>>

TickStep(p) ==
    \/ TickStart(p)
    \/ TickStartFails(p)
    \/ EvalDeviceMissing(p)
    \/ LoadDevice(p)
    \/ LoadDeviceRaises(p)
    \/ TelemetryGate(p)
    \/ ThresholdGate(p)
    \/ WeatherGate(p)
    \/ SkipHistory(p)
    \/ SkipHistoryRaises(p)
    \/ CreateCommand(p)
    \/ CreateCommandFails(p)
    \/ DuplicateHistory(p)
    \/ DuplicateHistoryRaises(p)
    \/ PublishCommand(p)
    \/ PublishFails(p)
    \/ ExecutionHistory(p)
    \/ ExecutionHistoryRaises(p)
    \/ ErrorHistory(p)
    \/ ErrorHistoryRaises(p)
    \/ TickReturn(p)

NextTick == Advance \/ TickStep("i1")

SpecTick == Init /\ [][NextTick]_vars

----------------------------------------------------------------------------
(* Manual issuer: the Command record it creates *)

\* doc_data of _firestore_create_or_get_command; requested_by is dropped when
\* there is no user.
ManualCommandDoc(device_id, command_id, action, duration, origin, user_id, request_id, now_server) ==
    [device_id |-> device_id,
     command_id |-> command_id,
     origin |-> origin,
     requested_action |-> action,
     requested_duration |-> duration,
     action |-> action,
     duration |-> duration,
     status |-> "pending",
     last_status |-> "pending",
     created_at |-> now_server,
     updated_at |-> now_server,
     mqtt |-> [topic |-> build_device_command_topic(device_id), qos |-> 1],
     request |-> [request_id |-> request_id],
     schema_version |-> 1]
    @@ (IF user_id.ok THEN [requested_by |-> [user_id |-> user_id.val]] ELSE EmptyCol)

----------------------------------------------------------------------------
(* Acknowledgment Normalizer: helpers *)

\* str.strip().lower() on the texts devices send in this model.
StripLower(text) ==
    CASE text = " DONE " -> "done"
      [] text = "ERROR" -> "error"
      [] text = " On " -> "on"
      [] text = "Timeout" -> "timeout"
      [] text = "  " -> ""
      [] OTHER -> text

\* _safe_get(d, key): the value, or None when the key is absent (or null).
SafeGet(d, key) == IF Has(d, key) THEN SomeVal(d[key]) ELSE NoneVal

\* str(_safe_get(ack, key, "")).strip()
StrippedText(d, key) ==
    IF Has(d, key)
    THEN (IF d[key] \in {"  ", ""} THEN "" ELSE d[key])
    ELSE ""

_ALLOWED_STATUSES == {"received", "started", "done", "failed"}

\* A canonicalization that does not know the text "error".
_normalize_status_ErrorUnknown(raw) ==
    LET s == IF raw.ok THEN StripLower(raw.val) ELSE ""
    IN  IF s = "" THEN ""
        ELSE IF s \in _ALLOWED_STATUSES THEN s
        ELSE "unknown"

\* _normalize_status: "" for an empty text, failed for "error", the allowed
\* statuses as they are, unknown for anything else.
_normalize_status(raw) ==
    LET s == IF raw.ok THEN StripLower(raw.val) ELSE ""
    IN  IF s = "" THEN ""
        ELSE IF s = "error" THEN "failed"
        ELSE IF s \in _ALLOWED_STATUSES THEN s
        ELSE "unknown"

\* A result computation that does not look at the ok flag.
_status_to_result_IgnoreOk(status, ok_value, error_value) ==
    IF error_value.ok /\ error_value.val # "" THEN "failed"
    ELSE IF status = "done" THEN "success"
    ELSE "failed"

\* _status_to_result
_status_to_result(status, ok_value, error_value) ==
    IF error_value.ok /\ error_value.val # "" THEN "failed"
    ELSE IF ok_value.ok /\ ok_value.val = FALSE THEN "failed"
    ELSE IF status = "done" THEN "success"
    ELSE IF status = "failed" THEN "failed"
    ELSE "failed"

\* _normalize_action: the stripped lower-case text, None when empty or absent
_normalize_action(value) ==
    IF value.ok /\ StripLower(value.val) # "" THEN SomeVal(StripLower(value.val))
    ELSE NoneVal

\* _normalize_int: durations are integers in this model
_normalize_int(value) == value

\* A reason rewrite that looks at the reason, status and result only.
_normalize_reason_logic_AnyAction(reason, status, result, requested_action, requested_duration) ==
    IF ~reason.ok \/ reason.val = ""
    THEN [reason |-> NoneVal, raw |-> NoneVal]
    ELSE IF StripLower(reason.val) = "timeout" /\ status = "done" /\ result = "success"
         THEN [reason |-> SomeVal("duration_elapsed"), raw |-> reason]
         ELSE [reason |-> reason, raw |-> NoneVal]

\* _normalize_reason_logic: (final_reason, original_reason_raw)
_normalize_reason_logic(reason, status, result, requested_action, requested_duration) ==
    IF ~reason.ok \/ reason.val = ""
    THEN [reason |-> NoneVal, raw |-> NoneVal]
    ELSE IF /\ StripLower(reason.val) = "timeout"
            /\ status = "done"
            /\ result = "success"
            /\ requested_action.ok /\ StripLower(requested_action.val) = "on"
            /\ requested_duration.ok /\ requested_duration.val > 0
         THEN [reason |-> SomeVal("duration_elapsed"), raw |-> reason]
         ELSE [reason |-> reason, raw |-> NoneVal]

\* _build_history_message_simple
_build_history_message_simple(result, requested_action, requested_duration, reason, error_value) ==
    IF result = "success"
    THEN (IF requested_action.ok /\ requested_action.val = "on"
          THEN (IF requested_duration.ok
                THEN <<"Irrigacao ligada por", requested_duration.val, "s">>
                ELSE <<"Irrigacao ligada">>)
          ELSE IF requested_action.ok /\ requested_action.val = "off"
          THEN <<"Irrigacao desligada">>
          ELSE <<"Comando executado">>)
    ELSE IF reason.ok /\ reason.val # ""
    THEN <<"Comando interrompido", StripLower(reason.val)>>
    ELSE <<"Falha ao executar comando">>

\* _extract_mqtt_topic: the first of the topic keys that holds a text
_extract_mqtt_topic(ack) ==
    IF Has(ack, "mqtt_topic") THEN SomeVal(ack.mqtt_topic)
    ELSE IF Has(ack, "mqttTopic") THEN SomeVal(ack.mqttTopic)
    ELSE IF Has(ack, "topic") THEN SomeVal(ack.topic)
    ELSE IF Has(ack, "iot_topic") THEN SomeVal(ack.iot_topic)
    ELSE NoneVal

\* An encoded value of an envelope: form "json" is a text holding the JSON
\* of .obj, "b64json" a text holding the base64 of that JSON, "text" any
\* other text, "dict" an object, "number" a number.
IsStr(v) == v.form \in {"json", "b64json", "text"}

\* _try_json_loads: the object, None when the text is not a JSON object
_try_json_loads(v) == IF v.form = "json" THEN SomeVal(v.obj) ELSE NoneVal

\* _try_base64_to_json
_try_base64_to_json(v) == IF v.form = "b64json" THEN SomeVal(v.obj) ELSE NoneVal

\* "if maybe:" an empty object is falsy
Truthy(opt) == opt.ok /\ DOMAIN opt.val # {}

\* The wrapper keys message, data, body, scanned in this order.
RECURSIVE ScanWrappers(_, _)
ScanWrappers(event, keys) ==
    IF keys = << >> THEN event
    ELSE LET k == Head(keys)
         IN  IF ~Has(event, k) THEN ScanWrappers(event, Tail(keys))
             ELSE IF IsStr(event[k])
                  THEN (IF Truthy(_try_json_loads(event[k]))
                        THEN event[k].obj
                        ELSE ScanWrappers(event, Tail(keys)))
                  ELSE IF event[k].form = "dict"
                  THEN event[k].obj
                  ELSE ScanWrappers(event, Tail(keys))

\* A parser that looks at the wrapper keys before the payload field.
_parse_iot_payload_WrappersFirst(event) ==
    IF Has(event, "device_id") /\ Has(event, "status") /\ Has(event, "command_id")
    THEN event
    ELSE IF ScanWrappers(event, <<"message", "data", "body">>) # event
         THEN ScanWrappers(event, <<"message", "data", "body">>)
    ELSE IF /\ Has(event, "payload") /\ IsStr(event.payload)
            /\ Truthy(_try_json_loads(event.payload))
         THEN event.payload.obj
    ELSE IF /\ Has(event, "payload") /\ IsStr(event.payload)
            /\ Truthy(_try_base64_to_json(event.payload))
         THEN event.payload.obj
    ELSE event

\* _parse_iot_payload
_parse_iot_payload(event) ==
    IF Has(event, "device_id") /\ Has(event, "status") /\ Has(event, "command_id")
    THEN event
    ELSE IF /\ Has(event, "payload") /\ IsStr(event.payload)
            /\ Truthy(_try_json_loads(event.payload))
         THEN event.payload.obj
    ELSE IF /\ Has(event, "payload") /\ IsStr(event.payload)
            /\ Truthy(_try_base64_to_json(event.payload))
         THEN event.payload.obj
    ELSE ScanWrappers(event, <<"message", "data", "body">>)

----------------------------------------------------------------------------
(* Acknowledgment Normalizer: lambda_handler *)

StatusTsField(status) ==
    CASE status = "received" -> "status_ts.received"
      [] status = "started" -> "status_ts.started"
      [] status = "done" -> "status_ts.done"
      [] status = "failed" -> "status_ts.failed"
      [] OTHER -> "status_ts.unknown"

\* The locals of the handler for one parsed report.
AckDeviceId(ack) == StrippedText(ack, "device_id")
AckCommandId(ack) == StrippedText(ack, "command_id")
AckStatus(ack) == _normalize_status(SafeGet(ack, "status"))
AckAction(ack) == _normalize_action(SafeGet(ack, "action"))
AckDuration(ack) == _normalize_int(SafeGet(ack, "duration"))

\* result_calculated
AckResult(ack) ==
    IF AckStatus(ack) \in {"done", "failed"}
    THEN _status_to_result(AckStatus(ack), SafeGet(ack, "ok"), SafeGet(ack, "error"))
    ELSE "pending"

\* existing_data.get(key, default)
GetOr(existing_data, key, default) ==
    IF Has(existing_data, key) THEN SomeVal(existing_data[key]) ELSE default

\* final_reason, original_reason_raw
AckReason(ack, existing_data) ==
    _normalize_reason_logic(SafeGet(ack, "reason"), AckStatus(ack), AckResult(ack),
        _normalize_action(GetOr(existing_data, "requested_action", AckAction(ack))),
        _normalize_int(GetOr(existing_data, "requested_duration", AckDuration(ack))))

\* "not existing_data.get(key)": the field is absent or falsy ("" or 0).
Falsy(existing_data, key, zero) == ~Has(existing_data, key) \/ existing_data[key] = zero

\* The requested_action / requested_duration a received or started report
\* fills in.
RequestedFill(ack, existing_data) ==
    IF AckStatus(ack) \in {"received", "started"}
    THEN (IF AckAction(ack).ok /\ Falsy(existing_data, "requested_action", "")
          THEN [requested_action |-> AckAction(ack).val] ELSE EmptyCol)
         @@ (IF /\ AckDuration(ack).ok /\ AckDuration(ack).val # 0
                /\ Falsy(existing_data, "requested_duration", 0)
             THEN [requested_duration |-> AckDuration(ack).val] ELSE EmptyCol)
    ELSE EmptyCol

\* A status update that keeps a terminal status once the record holds one.
StatusUpdate_KeepTerminal(ack, existing_data, now_server) ==
    IF Has(existing_data, "status") /\ existing_data.status \in {"done", "failed"}
    THEN [last_status_at |-> now_server, updated_at |-> now_server]
    ELSE [status |-> AckStatus(ack),
          last_status |-> AckStatus(ack),
          last_status_at |-> now_server,
          updated_at |-> now_server]

\* The status, last_status and timestamps of update_doc.
StatusUpdate(ack, existing_data, now_server) ==
    [status |-> AckStatus(ack),
     last_status |-> AckStatus(ack),
     last_status_at |-> now_server,
     updated_at |-> now_server]
    @@ (StatusTsField(AckStatus(ack)) :> now_server)

\* update_doc
UpdateDoc(ack, existing_data, now_server) ==
    [device_id |-> AckDeviceId(ack), command_id |-> AckCommandId(ack)]
    @@ StatusUpdate(ack, existing_data, now_server)
    @@ (IF AckStatus(ack) \in {"done", "failed"}
        THEN [finished_at |-> now_server, result |-> AckResult(ack)]
        ELSE IF AckStatus(ack) = "received" THEN [received_at |-> now_server]
        ELSE IF AckStatus(ack) = "started" THEN [started_at |-> now_server]
        ELSE EmptyCol)
    @@ (IF AckReason(ack, existing_data).reason.ok
        THEN [reason |-> AckReason(ack, existing_data).reason.val] ELSE EmptyCol)
    @@ (IF AckReason(ack, existing_data).raw.ok
        THEN [reason_raw |-> AckReason(ack, existing_data).raw.val] ELSE EmptyCol)
    @@ (IF Has(ack, "sys") THEN [sys |-> ack.sys] ELSE EmptyCol)
    @@ (IF Has(ack, "error") THEN [error |-> ack.error] ELSE EmptyCol)
    @@ (IF AckAction(ack).ok THEN [action |-> AckAction(ack).val] ELSE EmptyCol)
    @@ (IF AckDuration(ack).ok THEN [duration |-> AckDuration(ack).val] ELSE EmptyCol)
    @@ (IF Has(ack, "ts") THEN [device_ts |-> ack.ts] ELSE EmptyCol)
    @@ (IF _extract_mqtt_topic(ack).ok
        THEN [mqtt_topic |-> _extract_mqtt_topic(ack).val] ELSE EmptyCol)
    @@ RequestedFill(ack, existing_data)

\* history_doc of a terminal report. The server-time fields timestamp and
\* updated_at are left out, as in HistoryDoc.
AckHistoryDoc(ack, existing_data) ==
    LET upd == UpdateDoc(ack, existing_data, 0)
        final_req_action ==
            _normalize_action(GetOr(existing_data, "requested_action",
                                    GetOr(upd, "requested_action", AckAction(ack))))
        final_req_duration ==
            _normalize_int(GetOr(existing_data, "requested_duration",
                                 GetOr(upd, "requested_duration", AckDuration(ack))))
        final_reason == AckReason(ack, existing_data).reason
    IN  [type |-> "command_execution",
         source |-> "command",
         device_id |-> AckDeviceId(ack),
         command_id |-> AckCommandId(ack),
         message |-> _build_history_message_simple(AckResult(ack), final_req_action,
                         final_req_duration, final_reason, SafeGet(ack, "error")),
         schema_version |-> 1,
         event_name |-> "command.execution.finished",
         event_code |-> "CMD_EXEC_FINISHED",
         status |-> AckStatus(ack),
         result |-> AckResult(ack),
         reason |-> final_reason,
         mqtt_topic |-> _extract_mqtt_topic(ack),
         details |-> [result |-> AckResult(ack),
                      final_status |-> AckStatus(ack),
                      requested |-> [action |-> final_req_action,
                                     duration |-> final_req_duration],
                      final |-> [action |-> AckAction(ack), duration |-> AckDuration(ack)],
                      reason |-> final_reason,
                      error |-> SafeGet(ack, "error"),
                      sys |-> SafeGet(ack, "sys"),
                      device_ts |-> SafeGet(ack, "ts"),
                      mqtt_topic |-> _extract_mqtt_topic(ack)]
                     @@ (IF AckReason(ack, existing_data).raw.ok
                         THEN [reason_raw |-> AckReason(ack, existing_data).raw.val]
                         ELSE EmptyCol),
         ui_hint |-> [kind |-> "command",
                      severity |-> IF AckResult(ack) = "success" THEN "info" ELSE "error"]]
        @@ (IF Has(ack, "error") /\ ack.error # "" THEN [error |-> ack.error] ELSE EmptyCol)

\* A history write that appends a new auto-id entry per terminal report.
AckHistoryUpsert_Add(hist, ack, existing_data) ==
    FirestoreAdd(hist, AckHistoryDoc(ack, existing_data))

\* history_ref.set(history_doc, merge=True) on history/cmd-<command_id>
AckHistoryUpsert(hist, ack, existing_data) ==
    [hist EXCEPT !.docs = SetMerge(@, AckPath(AckDeviceId(ack), AckCommandId(ack)),
                                   AckHistoryDoc(ack, existing_data))]

\* A validation that does not look at the command identifier.
AckMissingFields_NoCommandId(ack) == AckDeviceId(ack) = "" \/ AckStatus(ack) = ""

\* "if not device_id or not command_id or not status"
AckMissingFields(ack) ==
    AckDeviceId(ack) = "" \/ AckCommandId(ack) = "" \/ AckStatus(ack) = ""

\* The handler's answer for one event; persisted tells that the report was
\* written to the store. n counts the events handled so far
\* and repeated tells that this event and the one before it were the same
\* event, both persisted (history variables).
AckReturn(event, ok, error, persisted) ==
    [n |-> lastAck.n + 1, event |-> event, ok |-> ok, error |-> error,
     persisted |-> persisted,
     repeated |-> persisted /\ lastAck.persisted /\ lastAck.event = event,
     device_id |-> AckDeviceId(_parse_iot_payload(event)),
     command_id |-> AckCommandId(_parse_iot_payload(event)),
     status |-> AckStatus(_parse_iot_payload(event))]

\* A normalizer that writes the history entry for every status.
AckHandle_AlwaysHistory(event) ==
    LET ack == _parse_iot_payload(event)
        path == CmdPath(AckDeviceId(ack), AckCommandId(ack))
        existing_data == IF Exists(cmds, path) THEN cmds[path] ELSE EmptyCol
    IN  IF AckMissingFields(ack)
        THEN /\ lastAck' = AckReturn(event, FALSE, "missing_fields", FALSE)
             /\ UNCHANGED <<cmds, history>>
        ELSE /\ cmds' = SetMerge(cmds, path, UpdateDoc(ack, existing_data, clock))
             /\ history' = AckHistoryUpsert(history, ack, existing_data)
             /\ lastAck' = AckReturn(event, TRUE, "none", TRUE)

\* A normalizer that only updates records it already knows and rejects a
\* report for an unknown command.
AckHandle_KnownOnly(event) ==
    LET ack == _parse_iot_payload(event)
        path == CmdPath(AckDeviceId(ack), AckCommandId(ack))
        existing_data == IF Exists(cmds, path) THEN cmds[path] ELSE EmptyCol
    IN  IF AckMissingFields(ack) \/ ~Exists(cmds, path)
        THEN /\ lastAck' = AckReturn(event, FALSE, "missing_fields", FALSE)
             /\ UNCHANGED <<cmds, history>>
        ELSE /\ cmds' = SetMerge(cmds, path, UpdateDoc(ack, existing_data, clock))
             /\ history' = IF AckStatus(ack) \in {"done", "failed"}
                           THEN AckHistoryUpsert(history, ack, existing_data)
                           ELSE history
             /\ lastAck' = AckReturn(event, TRUE, "none", TRUE)

\* One invocation of the normalizer on an inbound event, with the store
\* reachable: validation, the merge into the Command record and, for a
\* terminal status, the upsert of the history entry.
AckHandle(event) ==
    LET ack == _parse_iot_payload(event)
        path == CmdPath(AckDeviceId(ack), AckCommandId(ack))
        existing_data == IF Exists(cmds, path) THEN cmds[path] ELSE EmptyCol
    IN  IF AckMissingFields(ack)
        THEN /\ lastAck' = AckReturn(event, FALSE, "missing_fields", FALSE)
             /\ UNCHANGED <<cmds, history>>
        ELSE /\ cmds' = SetMerge(cmds, path, UpdateDoc(ack, existing_data, clock))
             /\ history' = IF AckStatus(ack) \in {"done", "failed"}
                           THEN AckHistoryUpsert(history, ack, existing_data)
                           ELSE history
             /\ lastAck' = AckReturn(event, TRUE, "none", TRUE)

\* One invocation with no Firestore client (db is None): a valid report is
\* logged and answered ok without being persisted.
AckHandleNoStore(event) ==
    LET ack == _parse_iot_payload(event)
    IN  /\ lastAck' = IF AckMissingFields(ack)
                      THEN AckReturn(event, FALSE, "missing_fields", FALSE)
                      ELSE AckReturn(event, TRUE, "none", FALSE)
        /\ UNCHANGED <<cmds, history>>

\* The flat reports devices send for command c1 of device d1.
FlatReports ==
    { [device_id |-> "d1", command_id |-> "c1", status |-> st] @@ ad :
        st \in {"received", "started", " DONE ", "failed", "ERROR", "rebooting"},
        ad \in {EmptyCol, [action |-> "on", duration |-> 120],
                [action |-> "off", duration |-> 0]} }

\* Reports that lack one of the three required fields.
MalformedReports ==
    { [command_id |-> "c1", status |-> "done"],
      [device_id |-> "d1", status |-> "done"],
      [device_id |-> "d1", command_id |-> "  ", status |-> "done"],
      [device_id |-> "d1", command_id |-> "c1"],
      [device_id |-> "d1", command_id |-> "c1", status |-> "  "] }

\* Envelopes that carry the report under the payload field.
WrappedReports ==
    { [payload |-> [form |-> "json",
                    obj |-> [device_id |-> "d1", command_id |-> "c1", status |-> "done"]]],
      [payload |-> [form |-> "b64json",
                    obj |-> [device_id |-> "d1", command_id |-> "c1", status |-> "started"]]] }

AckEvents == FlatReports \cup MalformedReports \cup WrappedReports

AckReceive ==
    /\ lastAck.n < MaxAcks
    /\ \E event \in AckEvents : AckHandle(event)
    /\ UNCHANGED notAck

AckReceiveNoStore ==
    /\ lastAck.n < MaxAcks
    /\ \E event \in AckEvents : AckHandleNoStore(event)
    /\ UNCHANGED notAck

\* The command stores the normalizer can find: empty, or holding the pending
\* record the manual issuer created for (d1, c1).
AckInitialStores ==
    {EmptyCol}
    \cup { CmdPath("d1", "c1") :>
             ManualCommandDoc("d1", "c1", ad[1], ad[2], "manual", SomeVal("u1"), "req-1",
                              ClockStart) :
           ad \in {<<"on", 120>>, <<"on", 0>>, <<"off", 0>>} }

InitAck ==
    /\ clock = ClockStart
    /\ cmds \in AckInitialStores
    /\ history = EmptyHistory
    /\ published = EmptyBag
    /\ sched = [p \in Invocations |-> IdleInvocation]
    /\ tickSeq = 0
    /\ creators = [path \in CmdPaths |-> {}]
    /\ lastAck = NoAck
    /\ idq = NoIdQuery
    /\ man = NoRequests

NextAck == AckReceive \/ AckReceiveNoStore

SpecAck == InitAck /\ [][NextAck]_vars

----------------------------------------------------------------------------
(* Acknowledgment Normalizer on reports that carry a reason *)

\* Reports for command c1 of device d1 with the reason and ok fields devices
\* send.
ReasonReports ==
    { [device_id |-> "d1", command_id |-> "c1", status |-> st] @@ ad @@ rs @@ okv :
        st \in {" DONE ", "failed", "started"},
        ad \in {EmptyCol, [action |-> "on", duration |-> 120],
                [action |-> "off", duration |-> 0]},
        rs \in {EmptyCol, [reason |-> "timeout"], [reason |-> "Timeout"],
                [reason |-> "low_battery"]},
        okv \in {EmptyCol, [ok |-> FALSE]} }

ReasonReceive ==
    /\ lastAck.n < MaxReasonAcks
    /\ \E event \in ReasonReports : AckHandle(event)
    /\ UNCHANGED notAck

SpecReason == InitAck /\ [][ReasonReceive]_vars

\* Reports that carry, or not, an ok flag and an error value; the error value
\* can be the empty text.
ResultReports ==
    { [device_id |-> "d1", command_id |-> "c1", status |-> st] @@ okv @@ er :
        st \in {" DONE ", "failed", "ERROR", "started"},
        okv \in {EmptyCol, [ok |-> TRUE], [ok |-> FALSE]},
        er \in {EmptyCol, [error |-> "E42"], [error |-> ""]} }

ResultReceive ==
    /\ lastAck.n < MaxResultAcks
    /\ \E event \in ResultReports : AckHandle(event)
    /\ UNCHANGED notAck

SpecResult == InitAck /\ [][ResultReceive]_vars

\* Reports that arrive one after the other, ClockStep seconds apart: each is
\* handled at the server time of its arrival.
TimedReports ==
    { [device_id |-> "d1", command_id |-> "c1", status |-> st] :
        st \in {"received", "started", " DONE ", "failed", "rebooting"} }

TimedReceive ==
    /\ lastAck.n < MaxTimedAcks
    /\ \E event \in TimedReports : AckHandle(event)
    /\ clock' = clock + ClockStep
    /\ UNCHANGED <<published, sched, tickSeq, creators, idq, man>>

SpecTimed == InitAck /\ [][TimedReceive]_vars

----------------------------------------------------------------------------
(* The schedule issuer and the Acknowledgment Normalizer on one identifier *)

MaxEarlyAcks == 2

\* The minute after ClockStart, in which schedule s2 and schedule s3 (whose
\* device has no document) are due.
EarlyStart == ClockStart + 60

\* The identifier the reports below carry as their command_id text: the one
\* the scheduler derives for schedule s2 in that minute.
ReportedScheduleId == build_command_id("s2", EarlyStart)

\* Reports a device sends for that identifier, before or after the issuer
\* created its record.
EarlyReports ==
    { [device_id |-> ScheduleDocs["s2"].device, command_id |-> "c1", status |-> st] @@ ad :
        st \in {"received", "started"},
        ad \in {EmptyCol, [action |-> "on", duration |-> 120]} }

\* lambda_handler of the normalizer on one of these reports: update_doc is
\* merged into the record of the reported identifier.
EarlyAckReceive ==
    /\ lastAck.n < MaxEarlyAcks
    /\ \E event \in EarlyReports :
         LET ack == _parse_iot_payload(event)
             path == CmdPath(AckDeviceId(ack), ReportedScheduleId)
             existing_data == IF Exists(cmds, path) THEN cmds[path] ELSE EmptyCol
         IN  /\ cmds' = SetMerge(cmds, path,
                            [UpdateDoc(ack, existing_data, clock)
                               EXCEPT !.command_id = ReportedScheduleId])
             /\ lastAck' = AckReturn(event, TRUE, "none", TRUE)
    /\ UNCHANGED <<clock, history, published, sched, tickSeq, creators, idq, man>>

InitEarly ==
    /\ clock = EarlyStart
    /\ cmds = EmptyCol
    /\ history = EmptyHistory
    /\ published = EmptyBag
    /\ sched = [p \in Invocations |-> IdleInvocation]
    /\ tickSeq = 0
    /\ creators = [path \in CmdPaths |-> {}]
    /\ lastAck = NoAck
    /\ idq = NoIdQuery
    /\ man = NoRequests

NextEarly == SchedStep("i1") \/ EarlyAckReceive

SpecEarly == InitEarly /\ [][NextEarly]_vars

----------------------------------------------------------------------------
(* The payload parse chain as a pure function of the envelope *)

\* The report an envelope carries at the place named by via.
ReportAt(via) == [device_id |-> "d1", command_id |-> "c1", status |-> "done", via |-> via]

\* The envelopes the IoT rule can deliver: with or without the three flat
\* fields, a payload field and the wrapper keys, each absent or holding an
\* object, a text with a JSON object (possibly the empty object), a base64
\* text, another text or a number.
ParseEnvelopes ==
    { fl @@ pl @@ ms @@ da @@ bo :
        fl \in {EmptyCol, [device_id |-> "d1"],
                [device_id |-> "d1", command_id |-> "c1", status |-> "started"]},
        pl \in {EmptyCol,
                [payload |-> [form |-> "json", obj |-> ReportAt("payload")]],
                [payload |-> [form |-> "json", obj |-> EmptyCol]],
                [payload |-> [form |-> "b64json", obj |-> ReportAt("payload64")]],
                [payload |-> [form |-> "b64json", obj |-> EmptyCol]],
                [payload |-> [form |-> "text", obj |-> EmptyCol]],
                [payload |-> [form |-> "dict", obj |-> ReportAt("payloaddict")]]},
        ms \in {EmptyCol,
                [message |-> [form |-> "json", obj |-> ReportAt("message")]],
                [message |-> [form |-> "json", obj |-> EmptyCol]],
                [message |-> [form |-> "dict", obj |-> ReportAt("messagedict")]],
                [message |-> [form |-> "dict", obj |-> EmptyCol]],
                [message |-> [form |-> "text", obj |-> EmptyCol]],
                [message |-> [form |-> "number", obj |-> EmptyCol]]},
        da \in {EmptyCol,
                [data |-> [form |-> "json", obj |-> ReportAt("data")]],
                [data |-> [form |-> "dict", obj |-> ReportAt("datadict")]]},
        bo \in {EmptyCol, [body |-> [form |-> "dict", obj |-> ReportAt("bodydict")]]} }

\* An invocation of the normalizer is about to handle one of the envelopes.
InitParse ==
    /\ clock = ClockStart
    /\ cmds = EmptyCol
    /\ history = EmptyHistory
    /\ published = EmptyBag
    /\ sched = [p \in Invocations |-> IdleInvocation]
    /\ tickSeq = 0
    /\ creators = [path \in CmdPaths |-> {}]
    /\ \E event \in ParseEnvelopes : lastAck = [NoAck EXCEPT !.event = event]
    /\ idq = NoIdQuery
    /\ man = NoRequests

\* lambda_handler up to the validation of the parsed report; parsed keeps
\* what _parse_iot_payload returned.
ParseReceive ==
    /\ lastAck.n = 0
    /\ LET event == lastAck.event
       IN  lastAck' = [parsed |-> _parse_iot_payload(event)]
                      @@ AckReturn(event, ~AckMissingFields(_parse_iot_payload(event)),
                                   IF AckMissingFields(_parse_iot_payload(event))
                                   THEN "missing_fields" ELSE "none", FALSE)
    /\ UNCHANGED <<cmds, history>>
    /\ UNCHANGED notAck

SpecParse == InitParse /\ [][ParseReceive]_vars

----------------------------------------------------------------------------
(* Command identity as a pure function: two (schedule, time) inputs *)

\* The times the identity is derived at: the same minute with other seconds,
\* the next minute, the next hour, the next day, the next week.
IdTimes == { ClockStart + d : d \in {0, 1, 59, 60, 61, 3600, 86400, 604800} }

InitId ==
    /\ clock = ClockStart
    /\ cmds = EmptyCol
    /\ history = EmptyHistory
    /\ published = EmptyBag
    /\ sched = [p \in Invocations |-> IdleInvocation]
    /\ tickSeq = 0
    /\ creators = [path \in CmdPaths |-> {}]
    /\ lastAck = NoAck
    /\ man = NoRequests
    /\ \E sa \in ScheduleIds, sb \in ScheduleIds, ta \in IdTimes, tb \in IdTimes :
         idq = [NoIdQuery EXCEPT !.sa = sa, !.ta = ta, !.sb = sb, !.tb = tb]

\* build_command_id is called on both inputs.
DeriveIds ==
    /\ ~idq.done
    /\ idq' = [idq EXCEPT !.ida = build_command_id(idq.sa, idq.ta),
                          !.idb = build_command_id(idq.sb, idq.tb),
                          !.done = TRUE]
    /\ UNCHANGED <<clock, cmds, history, published, sched, tickSeq, creators, lastAck, man>>

\* The same inputs are looked up again.
DeriveAgain ==
    /\ idq.done
    /\ idq.ida = build_command_id(idq.sa, idq.ta)
    /\ idq' = [idq EXCEPT !.done = FALSE, !.ida = << >>, !.idb = << >>]
    /\ UNCHANGED <<clock, cmds, history, published, sched, tickSeq, creators, lastAck, man>>

NextId == DeriveIds \/ DeriveAgain

SpecId == InitId /\ [][NextId]_vars

----------------------------------------------------------------------------
(* HTTP handlers: the manual command request and the telemetry request *)

MAX_DURATION_SECONDS == 900
ALLOWED_ACTIONS == {"on", "off"}
REQUIRE_AUTH == TRUE
ENFORCE_DEVICE_OWNERSHIP == TRUE

\* What one Firestore call can do: answer, find no client (db is None), raise.
StoreOutcomes == {"ok", "unavailable", "raises"}

\* Command requests: the request body (command_id is the empty sequence when
\* the body has none), the Idempotency-Key header (key, "" when absent) and
\* the authorizer's uid (user_id, "" when absent). d1 is
\* owned by u1, d2 by u2, d3 has no device document.
CommandBodies ==
    { [device_id |-> "d1", user_id |-> "u1", action |-> "on", duration |-> 120, key |-> "k1", command_id |-> << >>],
      [device_id |-> "d1", user_id |-> "u1", action |-> "off", duration |-> 120, key |-> "k1", command_id |-> << >>],
      [device_id |-> "d1", user_id |-> "u1", action |-> "on", duration |-> 120, key |-> "", command_id |-> << >>],
      [device_id |-> "d1", user_id |-> "u1", action |-> "on", duration |-> 120, key |-> "k1",
       command_id |-> <<"c9">>],
      [device_id |-> "d2", user_id |-> "u1", action |-> "on", duration |-> 120, key |-> "k1", command_id |-> << >>],
      [device_id |-> "d3", user_id |-> "u1", action |-> "on", duration |-> 120, key |-> "k1", command_id |-> << >>],
      [device_id |-> "d1", user_id |-> "", action |-> "on", duration |-> 120, key |-> "k1", command_id |-> << >>],
      [device_id |-> "d1", user_id |-> "u1", action |-> "blink", duration |-> 120, key |-> "k1", command_id |-> << >>],
      [device_id |-> "d1", user_id |-> "u1", action |-> "on",
       duration |-> MAX_DURATION_SECONDS + 1, key |-> "k1", command_id |-> << >>],
      [device_id |-> "  ", user_id |-> "u1", action |-> "on", duration |-> 120, key |-> "k1", command_id |-> << >>] }

\* Telemetry requests: the device_id query parameter and the authorizer's uid.
TelemetryParams ==
    { [NoBody EXCEPT !.device_id = d, !.user_id = u] :
        d \in {"d1", "d2", "d3", "  "}, u \in {"u1", ""} }

\* An identifier derived from the key alone.
_command_id_from_idempotency_key_NoDevice(device_id, key) == <<"man-", Sha1_16(<<key>>)>>

\* _command_id_from_idempotency_key: "man-" + sha1(device_id + ":" + key)[:16]
_command_id_from_idempotency_key(device_id, key) == <<"man-", Sha1_16(<<device_id, ":", key>>)>>

\* validate_and_build_command: the message of the ValueError it raises, or
\* "none".
ValidationError(body) ==
    IF StripLower(body.device_id) = "" THEN "device_id é obrigatório"
    ELSE IF StripLower(body.action) \notin ALLOWED_ACTIONS THEN "action inválido"
    ELSE IF body.duration < 0 THEN "duration não pode ser negativo"
    ELSE IF body.duration > MAX_DURATION_SECONDS THEN "duration acima do máximo permitido"
    ELSE "none"

\* validate_and_build_command: duration is 0 for "off".
BuiltDuration(body) == IF StripLower(body.action) = "off" THEN 0 ELSE body.duration

\* validate_and_build_command: the body's command_id when it has one, else
\* the identifier derived from the idempotency key, else a uuid4 (an
\* identifier no other request has).
BuiltCommandId(r, body) ==
    IF body.command_id # << >>
    THEN body.command_id
    ELSE IF StripLower(body.key) # ""
    THEN _command_id_from_idempotency_key(body.device_id, body.key)
    ELSE <<"uuid4", r>>

\* The payload published on the device's command topic.
ManualPayload(r) ==
    [device_id |-> man[r].body.device_id,
     action |-> StripLower(man[r].body.action),
     duration |-> BuiltDuration(man[r].body),
     origin |-> "manual",
     command_id |-> man[r].command_id,
     issued_at |-> man[r].issued_at,
     user_id |-> man[r].body.user_id]

ManCmdPath(r) == CmdPath(man[r].body.device_id, man[r].command_id)

\* build_response of the command handler and of the telemetry handler.
CommandResponse(status_code, message) ==
    [statusCode |-> status_code, methods |-> "POST, OPTIONS", message |-> message]

TelemetryResponse(status_code, message) ==
    [statusCode |-> status_code, methods |-> "GET, OPTIONS", message |-> message]

\* An ownership check that lets the request through when the store cannot be
\* asked.
_firestore_check_device_owner_FailOpen(store, device_id, user_id) ==
    \/ store # "ok"
    \/ /\ device_id \in DOMAIN DeviceDocs
       /\ DeviceDocs[device_id].owner_uid = user_id

\* _firestore_check_device_owner: False when there is no client, the device
\* document does not exist, its owner is not the user, or the read raises.
_firestore_check_device_owner(store, device_id, user_id) ==
    /\ store = "ok"
    /\ device_id \in DOMAIN DeviceDocs
    /\ DeviceDocs[device_id].owner_uid = user_id

\* _assert_device_ownership of the telemetry handler.
_assert_device_ownership(store, device_id, user_uid) ==
    /\ user_uid # ""
    /\ store = "ok"
    /\ device_id \in DOMAIN DeviceDocs
    /\ DeviceDocs[device_id].owner_uid = user_uid

\* The request ends with a response.
Respond(rec, response) == [rec EXCEPT !.pc = "done", !.response = response]

\* API Gateway numbers the invocations in the order the requests arrive: r
\* starts once every invocation before it has started.
Arrived(r) ==
    \A q \in Requests :
        (<<q, r>> \in {<<"r1", "r2">>, <<"r1", "r3">>, <<"r2", "r3">>}) => man[q].pc # "idle"

\* A handler that creates the record before the ownership check, so that a
\* request answered 403 leaves a Command record behind.
ManReceive_CreateFirst(r) ==
    /\ man[r].pc = "idle"
    /\ Arrived(r)
    /\ \E body \in CommandBodies, store \in StoreOutcomes :
         LET rec == [man[r] EXCEPT !.kind = "command", !.body = body]
             checked == [rec EXCEPT !.owner_store = store,
                                    !.store_failed = (store # "ok")]
             forbidden == /\ ValidationError(body) = "none"
                          /\ body.user_id # ""
                          /\ ~_firestore_check_device_owner(store, body.device_id, body.user_id)
         IN  /\ man' = [man EXCEPT ![r] =
                 IF ValidationError(body) # "none"
                 THEN Respond(rec, CommandResponse(400, ValidationError(body)))
                 ELSE IF body.user_id = ""
                 THEN Respond(rec, CommandResponse(401, "Unauthorized"))
                 ELSE IF forbidden
                 THEN Respond(checked, CommandResponse(403, "Forbidden"))
                 ELSE [checked EXCEPT !.pc = "create",
                                      !.command_id = BuiltCommandId(r, body),
                                      !.issued_at = clock]]
             /\ cmds' = IF forbidden
                        THEN FirestoreCreate(cmds, CmdPath(body.device_id, BuiltCommandId(r, body)),
                                 ManualCommandDoc(body.device_id, BuiltCommandId(r, body),
                                                  StripLower(body.action), BuiltDuration(body),
                                                  "manual", SomeVal(body.user_id), r, clock)).col
                        ELSE cmds
    /\ UNCHANGED <<clock, history, published, sched, tickSeq, creators, lastAck, idq>>

\* lambda_handler up to the ownership check: validation (400), authentication
\* (401), ownership (403), else on to _firestore_create_or_get_command.
ManReceive(r) ==
    /\ man[r].pc = "idle"
    /\ Arrived(r)
    /\ \E body \in CommandBodies, store \in StoreOutcomes :
         LET rec == [man[r] EXCEPT !.kind = "command", !.body = body]
             checked == [rec EXCEPT !.owner_store = store,
                                    !.store_failed = (store # "ok")]
         IN  man' = [man EXCEPT ![r] =
                 IF ValidationError(body) # "none"
                 THEN Respond(rec, CommandResponse(400, ValidationError(body)))
                 ELSE IF REQUIRE_AUTH /\ body.user_id = ""
                 THEN Respond(rec, CommandResponse(401, "Unauthorized"))
                 ELSE IF ENFORCE_DEVICE_OWNERSHIP /\ body.user_id = ""
                 THEN Respond(rec, CommandResponse(401, "Unauthorized"))
                 ELSE IF /\ ENFORCE_DEVICE_OWNERSHIP
                         /\ ~_firestore_check_device_owner(store, body.device_id, body.user_id)
                 THEN Respond(checked, CommandResponse(403, "Forbidden"))
                 ELSE [checked EXCEPT !.pc = "create",
                                      !.command_id = BuiltCommandId(r, body),
                                      !.issued_at = clock]]
    /\ UNCHANGED <<clock, cmds, history, published, sched, tickSeq, creators, lastAck, idq>>

\* _firestore_create_or_get_command, cmd_ref.create(doc_data): created ->
\* (True, None); AlreadyExists -> the stored status is read next.
ManCreate(r) ==
    /\ man[r].pc = "create"
    /\ LET res == FirestoreCreate(cmds, ManCmdPath(r),
                      ManualCommandDoc(man[r].body.device_id, man[r].command_id,
                                       StripLower(man[r].body.action),
                                       BuiltDuration(man[r].body), "manual",
                                       SomeVal(man[r].body.user_id), r, clock))
       IN  /\ cmds' = res.col
           /\ man' = [man EXCEPT ![r] =
                        IF res.ok
                        THEN [@ EXCEPT !.created_new = TRUE, !.pc = "publish"]
                        ELSE [@ EXCEPT !.pc = "read_existing"]]
    /\ UNCHANGED <<clock, history, published, sched, tickSeq, creators, lastAck, idq>>

\* cmd_ref.create raises something other than AlreadyExists: logged, and
\* (True, None) is returned.
ManCreateRaises(r) ==
    /\ man[r].pc = "create"
    /\ man' = [man EXCEPT ![r] = [@ EXCEPT !.created_new = TRUE, !.pc = "publish",
                                           !.store_failed = TRUE]]
    /\ UNCHANGED <<clock, cmds, history, published, sched, tickSeq, creators, lastAck, idq>>

\* A handler that also publishes again for a record that is still pending.
AfterExisting_PendingToo(rec, existing_status) ==
    IF existing_status \notin {"publish_failed", "pending"}
    THEN Respond([rec EXCEPT !.existing_status = existing_status],
                 CommandResponse(200, "Comando já existente (idempotent). Não foi republicado."))
    ELSE [rec EXCEPT !.existing_status = existing_status, !.pc = "publish"]

\* "if created_new is False and (existing_status or '').lower() !=
\* 'publish_failed'": answer 200 without publishing; else publish.
AfterExisting(rec, existing_status) ==
    IF existing_status # "publish_failed"
    THEN Respond([rec EXCEPT !.existing_status = existing_status],
                 CommandResponse(200, "Comando já existente (idempotent). Não foi republicado."))
    ELSE [rec EXCEPT !.existing_status = existing_status, !.pc = "publish"]

\* After AlreadyExists: existing = cmd_ref.get(); (False, status).
ManReadExisting(r) ==
    /\ man[r].pc = "read_existing"
    /\ man' = [man EXCEPT ![r] = AfterExisting(@, StripLower(cmds[ManCmdPath(r)].status))]
    /\ UNCHANGED <<clock, cmds, history, published, sched, tickSeq, creators, lastAck, idq>>

\* After AlreadyExists the read raises: (False, None).
ManReadExistingRaises(r) ==
    /\ man[r].pc = "read_existing"
    /\ man' = [man EXCEPT ![r] = AfterExisting([@ EXCEPT !.store_failed = TRUE], "None")]
    /\ UNCHANGED <<clock, cmds, history, published, sched, tickSeq, creators, lastAck, idq>>

\* iot_data.publish returns: 200 "Comando enviado com sucesso".
ManPublish(r) ==
    /\ man[r].pc = "publish"
    /\ published' = published (+) SetToBag({ManualPayload(r)})
    /\ man' = [man EXCEPT ![r] =
                 Respond([@ EXCEPT !.pubs = @ + 1],
                         CommandResponse(200, "Comando enviado com sucesso"))]
    /\ UNCHANGED <<clock, cmds, history, sched, tickSeq, creators, lastAck, idq>>

\* iot_data.publish raises: the handler's "except Exception" takes over.
ManPublishRaises(r) ==
    /\ man[r].pc = "publish"
    /\ man' = [man EXCEPT ![r].pc = "mark_failed"]
    /\ UNCHANGED <<clock, cmds, history, published, sched, tickSeq, creators, lastAck, idq>>

\* The fields _firestore_mark_publish_failed merges into the record.
PublishFailedFields(now_server) ==
    [status |-> "publish_failed", updated_at |-> now_server,
     error |-> [type |-> "iot_publish_error", message |-> "publish raised"]]

\* A marking that replaces the record (set without merge) instead of merging
\* into it.
ManMarkFailed_Overwrite(r) ==
    /\ man[r].pc = "mark_failed"
    /\ cmds' = (ManCmdPath(r) :> PublishFailedFields(clock)) @@ cmds
    /\ man' = [man EXCEPT ![r] = Respond(@, CommandResponse(500, "Erro interno na Lambda"))]
    /\ UNCHANGED <<clock, history, published, sched, tickSeq, creators, lastAck, idq>>

\* _firestore_mark_publish_failed, then 500.
ManMarkFailed(r) ==
    /\ man[r].pc = "mark_failed"
    /\ cmds' = SetMerge(cmds, ManCmdPath(r), PublishFailedFields(clock))
    /\ man' = [man EXCEPT ![r] = Respond(@, CommandResponse(500, "Erro interno na Lambda"))]
    /\ UNCHANGED <<clock, history, published, sched, tickSeq, creators, lastAck, idq>>

\* The set(merge=True) of _firestore_mark_publish_failed raises: logged; 500.
ManMarkFailedRaises(r) ==
    /\ man[r].pc = "mark_failed"
    /\ man' = [man EXCEPT ![r] =
                 Respond([@ EXCEPT !.store_failed = TRUE],
                         CommandResponse(500, "Erro interno na Lambda"))]
    /\ UNCHANGED <<clock, cmds, history, published, sched, tickSeq, creators, lastAck, idq>>

ManStep(r) ==
    \/ ManReceive(r)
    \/ ManCreate(r)
    \/ ManCreateRaises(r)
    \/ ManReadExisting(r)
    \/ ManReadExistingRaises(r)
    \/ ManPublish(r)
    \/ ManPublishRaises(r)
    \/ ManMarkFailed(r)
    \/ ManMarkFailedRaises(r)

\* The telemetry handler up to the ownership check: device_id parameter
\* (400), authentication (401), ownership (403), else on to the query.
TelReceive(r) ==
    /\ man[r].pc = "idle"
    /\ Arrived(r)
    /\ \E params \in TelemetryParams, store \in StoreOutcomes :
         LET rec == [man[r] EXCEPT !.kind = "telemetry", !.body = params]
             checked == [rec EXCEPT !.owner_store = store,
                                    !.store_failed = (store # "ok")]
         IN  man' = [man EXCEPT ![r] =
                 IF StripLower(params.device_id) = ""
                 THEN Respond(rec, TelemetryResponse(400, "device_id obrigatorio"))
                 ELSE IF REQUIRE_AUTH /\ params.user_id = ""
                 THEN Respond(rec, TelemetryResponse(401, "Unauthorized"))
                 ELSE IF /\ ENFORCE_DEVICE_OWNERSHIP
                         /\ ~_assert_device_ownership(store, params.device_id, params.user_id)
                 THEN Respond(checked, TelemetryResponse(403, "Forbidden"))
                 ELSE [checked EXCEPT !.pc = "query"]]
    /\ UNCHANGED <<clock, cmds, history, published, sched, tickSeq, creators, lastAck, idq>>

\* table.query answers: 200 with the items.
TelQuery(r) ==
    /\ man[r].pc = "query"
    /\ man' = [man EXCEPT ![r] = Respond(@, TelemetryResponse(200, "data"))]
    /\ UNCHANGED <<clock, cmds, history, published, sched, tickSeq, creators, lastAck, idq>>

\* table.query raises: 500.
TelQueryRaises(r) ==
    /\ man[r].pc = "query"
    /\ man' = [man EXCEPT ![r] = Respond(@, TelemetryResponse(500, "Internal Server Error"))]
    /\ UNCHANGED <<clock, cmds, history, published, sched, tickSeq, creators, lastAck, idq>>

TelStep(r) == TelReceive(r) \/ TelQuery(r) \/ TelQueryRaises(r)

\* Command requests, up to three at a time, against a store that starts
\* empty.
NextManual == \E r \in Requests : ManStep(r)

SpecManual == Init /\ [][NextManual]_vars

\* Command and telemetry requests, two at a time.
OwnerRequests == {"r1", "r2"}

\* Command requests that find a record in any status: the store is empty or
\* holds, for the identifier of device d1 and key k1, the record of an earlier
\* request in the status an acknowledgment or a publish failure left.
ExistingStatuses ==
    {"pending", "received", "started", "done", "failed", "unknown", "publish_failed"}

RetryInitialStores ==
    {EmptyCol}
    \cup { CmdPath("d1", _command_id_from_idempotency_key("d1", "k1")) :>
             [ManualCommandDoc("d1", _command_id_from_idempotency_key("d1", "k1"), "on", 120,
                               "manual", SomeVal("u1"), "req-0", ClockStart)
                EXCEPT !.status = st,
                       !.last_status = IF st = "publish_failed" THEN "pending" ELSE st] :
           st \in ExistingStatuses }

InitRetry ==
    /\ clock = ClockStart
    /\ cmds \in RetryInitialStores
    /\ history = EmptyHistory
    /\ published = EmptyBag
    /\ sched = [p \in Invocations |-> IdleInvocation]
    /\ tickSeq = 0
    /\ creators = [path \in CmdPaths |-> {}]
    /\ lastAck = NoAck
    /\ idq = NoIdQuery
    /\ man = NoRequests

NextRetry == \E r \in OwnerRequests : ManStep(r)

SpecRetry == InitRetry /\ [][NextRetry]_vars

NextOwner == \E r \in OwnerRequests : ManStep(r) \/ TelStep(r)

SpecOwner == Init /\ [][NextOwner]_vars

----------------------------------------------------------------------------
(* Properties *)

\* Two instants of local time lie in the same calendar minute.
SameLocalMinute(t1, t2) == t1 \div 60 = t2 \div 60

RECURSIVE CopiesOver(_, _)
CopiesOver(S, B) ==
    IF S = {} THEN 0
    ELSE LET m == CHOOSE x \in S : TRUE
         IN  CopiesIn(m, B) + CopiesOver(S \ {m}, B)

\* The number of downlink messages published for a command path.
PublishCount(path) ==
    CopiesOver({ m \in BagToSet(published) :
                   CmdPath(m.device_id, m.command_id) = path }, published)

\* The command path invocation p derives for schedule sid.
PathOf(p, sid) ==
    CmdPath(ScheduleDocs[sid].device, build_command_id(sid, sched[p].now_local))

CreationFieldNames ==
    {"origin", "requested_action", "requested_duration", "created_at", "schedule", "mqtt"}

CreationFields(doc) == [k \in CreationFieldNames \cap DOMAIN doc |-> doc[k]]

\* Invocation p is in the Command Issuer for the schedule at the head of its stream.
InIssuer(p) ==
    sched[p].pc \in {"create", "publish", "dup_history", "exec_history", "err_history"}

\* C1. Schedule issuer create-once: for every command path, at most one
\* create succeeds and its record stays in the store; the record is published
\* at most once, and only by the invocation whose create succeeded (an
\* attempt on an existing record publishes nothing); and no step changes the
\* creation fields (origin, requested_action, requested_duration, created_at,
\* schedule, mqtt) of a record that exists.
C1_CreateOnce ==
    /\ [](\A path \in CmdPaths :
            /\ Cardinality(creators[path]) <= 1
            /\ (creators[path] # {} => Exists(cmds, path))
            /\ PublishCount(path) <= 1
            /\ \A p \in Invocations :
                 /\ (path \in sched[p].pubs => creators[path] = {sched[p].tick})
                 /\ (sched[p].pc \in {"publish", "exec_history"} /\ CurCmdPath(p) = path
                        => creators[path] = {sched[p].tick}))
    /\ [][\A path \in DOMAIN cmds :
            /\ path \in DOMAIN cmds'
            /\ CreationFields(cmds'[path]) = CreationFields(cmds[path])]_vars

\* C1 witness: a record was created and published once, and a later attempt
\* on the same identifier ended as a duplicate.
C1_Witness ==
    \E p \in Invocations, q \in Invocations, sid \in ScheduleIds :
        /\ p # q
        /\ sched[p].out[sid] = "executed"
        /\ sched[q].out[sid] = "duplicate"
        /\ PathOf(p, sid) = PathOf(q, sid)
        /\ sched[q].now_local > sched[p].now_local
        /\ PublishCount(PathOf(p, sid)) = 1

\* Invocation p's create-if-absent for schedule sid was answered by the store.
CreateAnswered(p, sid) ==
    \/ sched[p].out[sid] \in {"executed", "duplicate", "publish_error"}
    \/ /\ sched[p].pc \in {"publish", "dup_history", "exec_history"}
       /\ CurSchedule(p) = sid
    \/ /\ sched[p].pc = "err_history" /\ sched[p].raised = "publish"
       /\ CurSchedule(p) = sid

\* Invocation p took the already-exists path for schedule sid.
SawAlreadyExists(p, sid) ==
    \/ sched[p].out[sid] = "duplicate"
    \/ sched[p].pc = "dup_history" /\ CurSchedule(p) = sid

\* C2. Two invocations that derive the same command identifier, in every
\* interleaving of their create, publish and history steps: at most one of
\* them publishes; once the store has answered both creates, exactly one
\* invocation created the record, and whichever of the two did not saw
\* already-exists, counted a duplicate and published nothing.
C2_RaceSafe ==
    \A p \in Invocations, q \in Invocations, sid \in ScheduleIds :
        (/\ p # q
         /\ sched[p].pc # "idle" /\ sched[q].pc # "idle"
         /\ PathOf(p, sid) = PathOf(q, sid)
         /\ CreateAnswered(p, sid) /\ CreateAnswered(q, sid))
        => /\ ~(PathOf(p, sid) \in sched[p].pubs /\ PathOf(q, sid) \in sched[q].pubs)
           /\ Cardinality(creators[PathOf(p, sid)]) = 1
           /\ (sched[p].tick \notin creators[PathOf(p, sid)]
                 => /\ SawAlreadyExists(p, sid)
                    /\ sched[p].duplicates >= 1
                    /\ PathOf(p, sid) \notin sched[p].pubs)

\* C2 witness: the two invocations overlap; one has created the record and not
\* yet published it while the other has already seen already-exists.
C2_Witness ==
    \E p \in Invocations, q \in Invocations :
        /\ p # q
        /\ sched[p].pc = "publish" /\ sched[q].pc = "dup_history"
        /\ CurCmdPath(p) = CurCmdPath(q)
        /\ sched[q].duplicates = 1

\* The newest reading invocation p read for its last schedule was older than
\* the configured maximum.
StaleRead(p) ==
    /\ sched[p].schedule_id # "none"
    /\ sched[p].gate # "no_device"
    /\ sched[p].tele_age.ok
    /\ sched[p].tele_age.val > TELEMETRY_MAX_AGE_SEC

\* C3. Stale telemetry is skipped: when the age of the newest reading exceeds
\* TELEMETRY_MAX_AGE_SEC, the schedule is counted skipped and the invocation
\* neither creates a Command record nor publishes a downlink for it.
C3_StaleTelemetrySkips ==
    \A p \in Invocations :
        StaleRead(p)
        => /\ sched[p].gate = "telemetry"
           /\ sched[p].out[sched[p].schedule_id] = "skipped"
           /\ sched[p].skipped >= 1
           /\ ~(InIssuer(p) /\ CurSchedule(p) = sched[p].schedule_id)
           /\ sched[p].tick \notin creators[PathOf(p, sched[p].schedule_id)]
           /\ PathOf(p, sched[p].schedule_id) \notin sched[p].pubs

\* C3 witness: a reading one second older than the maximum was read, with a
\* moisture value below the target, and the schedule was skipped.
C3_Witness ==
    \E p \in Invocations :
        /\ StaleRead(p)
        /\ sched[p].tele_age.val = TELEMETRY_MAX_AGE_SEC + 1
        /\ sched[p].out[sched[p].schedule_id] = "skipped"

\* C4. Deterministic schedule identity: the identifiers of two (schedule,
\* time) inputs are equal exactly when the schedules are equal and the two
\* times lie in the same local minute, whatever the seconds.
C4_DeterministicIdentity ==
    idq.done =>
        ((idq.ida = idq.idb) <=> (idq.sa = idq.sb /\ SameLocalMinute(idq.ta, idq.tb)))

\* C4 witness: the same schedule at two different seconds of one minute got
\* one identifier.
C4_Witness ==
    /\ idq.done
    /\ idq.sa = idq.sb /\ idq.ta # idq.tb /\ SameLocalMinute(idq.ta, idq.tb)
    /\ idq.ida = idq.idb

\* C5. Tick-level dedup: when a tick executed a schedule, another tick of the
\* same local minute that passed the gates for it and whose create reached the
\* store ends the schedule as a duplicate: it creates no record, publishes no
\* downlink, and returns duplicates = 1 and executed = 0; one downlink was
\* published for the command in all.
C5_TickDedup ==
    \A p \in Invocations, q \in Invocations, sid \in ScheduleIds :
        (/\ p # q
         /\ sched[p].out[sid] = "executed"
         /\ sched[q].pc # "idle"
         /\ SameLocalMinute(sched[p].now_local, sched[q].now_local)
         /\ sched[q].out[sid] \notin {"none", "skipped", "create_error"})
        => /\ sched[q].out[sid] = "duplicate"
           /\ PathOf(q, sid) \notin sched[q].pubs
           /\ sched[q].tick \notin creators[PathOf(q, sid)]
           /\ PublishCount(PathOf(p, sid)) = 1
           /\ (sched[q].pc = "done"
                 => sched[q].duplicates = 1 /\ sched[q].executed = 0)

\* C5 witness: the first tick returned executed = 1 and a later tick of the
\* same minute returned duplicates = 1.
C5_Witness ==
    \E p \in Invocations, q \in Invocations, sid \in ScheduleIds :
        /\ p # q
        /\ sched[p].pc = "done" /\ sched[p].executed = 1
        /\ sched[p].out[sid] = "executed"
        /\ sched[q].pc = "done" /\ sched[q].duplicates = 1 /\ sched[q].executed = 0
        /\ sched[q].out[sid] = "duplicate"
        /\ sched[q].now_local > sched[p].now_local
        /\ SameLocalMinute(sched[p].now_local, sched[q].now_local)

\* The history entries of a device that carry a command identifier and a type.
HistoryEntries(device_id, command_id, log_type) ==
    { path \in DOMAIN history.docs :
        /\ path[1] = device_id
        /\ Has(history.docs[path], "command_id")
        /\ history.docs[path].command_id = command_id
        /\ history.docs[path].type = log_type }

\* C6. History after a duplicate: once one tick has executed a schedule and
\* another tick has ended the same command as a duplicate, the device's
\* history holds one 'execution' entry and one 'duplicate' entry for the
\* command.
C6_HistoryAfterDuplicate ==
    \A p \in Invocations, q \in Invocations, sid \in ScheduleIds :
        (/\ p # q
         /\ sched[p].out[sid] = "executed"
         /\ sched[q].out[sid] = "duplicate"
         /\ PathOf(p, sid) = PathOf(q, sid))
        => /\ Cardinality(HistoryEntries(ScheduleDocs[sid].device,
                              build_command_id(sid, sched[p].now_local), "execution")) = 1
           /\ Cardinality(HistoryEntries(ScheduleDocs[sid].device,
                              build_command_id(sid, sched[p].now_local), "duplicate")) = 1

\* C6 witness: one tick executed the schedule, another ended the same command
\* as a duplicate, and the device's history holds a single document for it.
C6_Witness ==
    \E p \in Invocations, q \in Invocations, sid \in ScheduleIds :
        /\ p # q
        /\ sched[p].out[sid] = "executed"
        /\ sched[q].out[sid] = "duplicate"
        /\ PathOf(p, sid) = PathOf(q, sid)
        /\ Cardinality({ path \in DOMAIN history.docs :
                           path[1] = ScheduleDocs[sid].device }) = 1

\* The command path of the last event the normalizer handled.
LastAckPath == CmdPath(lastAck.device_id, lastAck.command_id)

\* The canonical status of the last event the normalizer handled.
LastAckCanonical == AckStatus(_parse_iot_payload(lastAck.event))

\* The number of acknowledgment history entries of a command: the documents
\* of the device's history written by the normalizer for that command,
\* whatever their identifier.
AckHistoryCount(device_id, command_id) ==
    Cardinality({ path \in DOMAIN history.docs :
                    /\ path[1] = device_id
                    /\ history.docs[path].source = "command"
                    /\ history.docs[path].command_id = command_id })
    + CopiesOver({ doc \in BagToSet(history.added) :
                     /\ doc.source = "command"
                     /\ doc.device_id = device_id
                     /\ doc.command_id = command_id }, history.added)

\* C7. Acknowledgment idempotence: however many terminal reports (done or
\* failed, repeated or not) the normalizer has persisted for a command, the
\* device's history holds exactly one acknowledgment entry for it, the
\* document cmd-<command_id>; before any terminal report it holds none.
C7_AckIdempotence ==
    \A path \in DOMAIN cmds :
        /\ AckHistoryCount(path[1], path[2]) <= 1
        /\ (Has(cmds[path], "finished_at")
              => /\ AckHistoryCount(path[1], path[2]) = 1
                 /\ Exists(history.docs, AckPath(path[1], path[2])))
        /\ (~Has(cmds[path], "finished_at") => AckHistoryCount(path[1], path[2]) = 0)

\* C7 witness: the same terminal report was persisted twice in a row, after an
\* earlier terminal report with the other status, and one entry is there.
C7_Witness ==
    /\ lastAck.repeated
    /\ lastAck.n = 3
    /\ lastAck.status \in {"done", "failed"}
    /\ Has(cmds[LastAckPath], "status_ts.done")
    /\ Has(cmds[LastAckPath], "status_ts.failed")
    /\ AckHistoryCount(lastAck.device_id, lastAck.command_id) = 1

\* C8. Out-of-order tolerance: a received or started report persisted for a
\* record whose status is done leaves status and last_status at done (started,
\* done, then a late started ends with done).
C8_NoRegress ==
    [][\A path \in DOMAIN cmds :
         (/\ cmds[path].status = "done"
          /\ lastAck'.n = lastAck.n + 1
          /\ lastAck'.persisted
          /\ lastAck'.status \in {"received", "started"}
          /\ CmdPath(lastAck'.device_id, lastAck'.command_id) = path)
         => /\ cmds'[path].status = "done"
            /\ cmds'[path].last_status = "done"]_vars

\* C8 case: three reports were persisted for the command, a started and a
\* done among them, and the last one was a started.
C8_LateStarted ==
    /\ lastAck.n = 3
    /\ lastAck.persisted
    /\ lastAck.status = "started"
    /\ Has(cmds[LastAckPath], "status_ts.done")
    /\ Has(cmds[LastAckPath], "started_at")
    /\ cmds[LastAckPath].result = "success"

\* C9. Unconditional status update: after the normalizer has persisted a
\* valid report, the status and last_status of the command's record are the
\* canonical status of that report, whatever the record held before.
C9_UnconditionalStatus ==
    lastAck.persisted
    => /\ Exists(cmds, LastAckPath)
       /\ cmds[LastAckPath].status = LastAckCanonical
       /\ cmds[LastAckPath].last_status = LastAckCanonical

\* C9 witness: a record that had reached a terminal status now holds the
\* status of a later non-terminal report.
C9_Witness ==
    /\ lastAck.persisted
    /\ LastAckCanonical \in {"received", "started", "unknown"}
    /\ Has(cmds[LastAckPath], "finished_at")
    /\ cmds[LastAckPath].status = LastAckCanonical

RequestedFieldNames == {"requested_action", "requested_duration"}

\* C10. Requested fields are authoritative: no step changes or removes the
\* requested_action or the requested_duration a Command record holds,
\* whatever the value (0 included).
C10_RequestedAuthoritative ==
    [][\A path \in DOMAIN cmds :
         \A k \in RequestedFieldNames \cap DOMAIN cmds[path] :
            /\ path \in DOMAIN cmds'
            /\ Has(cmds'[path], k)
            /\ cmds'[path][k] = cmds[path][k]]_vars

\* C10 case: the record the manual issuer created for "off" with a requested
\* duration of 0 now holds a requested duration of 120.
C10_ZeroOverwritten ==
    /\ Exists(cmds, CmdPath("d1", "c1"))
    /\ Has(cmds[CmdPath("d1", "c1")], "origin")
    /\ cmds[CmdPath("d1", "c1")].requested_action = "off"
    /\ cmds[CmdPath("d1", "c1")].requested_duration = 120

\* The step handles one more event and persists it.
AckPersistedStep == lastAck'.n = lastAck.n + 1 /\ lastAck'.persisted

\* The report of the event handled by the step, and the record before and
\* after it (an absent record reads as the empty document).
StepReport == _parse_iot_payload(lastAck'.event)
StepPath == CmdPath(lastAck'.device_id, lastAck'.command_id)
StepBefore == IF Exists(cmds, StepPath) THEN cmds[StepPath] ELSE EmptyCol
StepAfter == cmds'[StepPath]

\* Field k is the same, or absent, in both documents.
SameField(old, new, k) == (Has(old, k) <=> Has(new, k)) /\ (Has(old, k) => new[k] = old[k])

\* The report is a timeout that ended a command successfully.
SuccessfulTimeout(ack) ==
    /\ Has(ack, "reason") /\ StripLower(ack.reason) = "timeout"
    /\ AckStatus(ack) = "done"
    /\ AckResult(ack) = "success"

\* The record holds requested action on with a positive requested duration.
RecordRequestedOn(doc) ==
    /\ Has(doc, "requested_action") /\ doc.requested_action = "on"
    /\ Has(doc, "requested_duration") /\ doc.requested_duration > 0

\* The requested action and duration the normalizer resolves: the record's
\* field when the record holds it, the report's own action or duration when
\* it does not.
ResolvedRequestedOn(doc, ack) ==
    /\ IF Has(doc, "requested_action") THEN doc.requested_action = "on"
       ELSE Has(ack, "action") /\ StripLower(ack.action) = "on"
    /\ IF Has(doc, "requested_duration") THEN doc.requested_duration > 0
       ELSE Has(ack, "duration") /\ ack.duration > 0

\* What a persisted report leaves in reason and reason_raw, given whether the
\* rewrite applies.
ReasonStored(rewrite) ==
    IF Has(StepReport, "reason") /\ StepReport.reason # ""
    THEN IF rewrite
         THEN /\ StepAfter.reason = "duration_elapsed"
              /\ StepAfter.reason_raw = StepReport.reason
         ELSE /\ StepAfter.reason = StepReport.reason
              /\ SameField(StepBefore, StepAfter, "reason_raw")
    ELSE /\ SameField(StepBefore, StepAfter, "reason")
         /\ SameField(StepBefore, StepAfter, "reason_raw")

\* C11 (as stated). Reason rewrite: a persisted report stores reason =
\* duration_elapsed and reason_raw = its reason exactly when it is a
\* successful timeout and the record's requested action is on with a positive
\* requested duration; otherwise its reason is stored unchanged and it writes
\* no reason_raw.
C11_ReasonRewrite_Record ==
    [][AckPersistedStep
         => ReasonStored(SuccessfulTimeout(StepReport) /\ RecordRequestedOn(StepBefore))]_vars

\* C11 (amended). Reason rewrite: as above, with the requested action and
\* duration taken from the record when the record holds them and from the
\* report itself when it does not.
C11_ReasonRewrite ==
    [][AckPersistedStep
         => ReasonStored(SuccessfulTimeout(StepReport)
                         /\ ResolvedRequestedOn(StepBefore, StepReport))]_vars

\* C11 witness: a record with requested action on and duration 120 holds the
\* rewritten reason and the raw one.
C11_Witness ==
    /\ lastAck.persisted
    /\ Has(lastAck.event, "reason")
    /\ Has(cmds[LastAckPath], "origin")
    /\ cmds[LastAckPath].requested_action = "on"
    /\ cmds[LastAckPath].requested_duration = 120
    /\ cmds[LastAckPath].reason = "duration_elapsed"
    /\ cmds[LastAckPath].reason_raw = lastAck.event.reason

\* The invocation of the step-by-step specification.
T == "i1"

\* The command path of the schedule invocation p processed last.
LastPath(p) == PathOf(p, sched[p].schedule_id)

\* Invocation p neither created nor published the command of the schedule
\* it processed last, and is not inside the Command Issuer for it.
NothingIssued(p) ==
    /\ sched[p].pc \notin {"create", "publish", "dup_history", "exec_history", "err_history"}
    /\ sched[p].tick \notin creators[LastPath(p)]
    /\ LastPath(p) \notin sched[p].pubs

\* The step is the history write of a skip: one 'skipped' entry is added,
\* skipped is incremented, and neither the command store nor the downlink
\* topic changes.
SkipRecorded(p) ==
    /\ BagCardinality(history'.added) = BagCardinality(history.added) + 1
    /\ \E doc \in BagToSet(history'.added) :
         /\ doc.type = "skipped"
         /\ doc.device_id = ScheduleDocs[sched[p].schedule_id].device
         /\ CopiesIn(doc, history'.added) = CopiesIn(doc, history.added) + 1
    /\ history'.docs = history.docs
    /\ sched'[p].skipped = sched[p].skipped + 1
    /\ sched'[p].out[sched[p].schedule_id] = "skipped"
    /\ cmds' = cmds /\ published' = published

\* The telemetry read answered with no usable reading: a read error, no row,
\* sensors.soil_moisture absent or not a number, or no timestamp.
TelemetryUnavailable(resp) ==
    \/ resp.err
    \/ resp.rows = 0
    \/ resp.moisture.kind \in {"none", "str"}
    \/ resp.ts.kind = "none"

\* C12. Telemetry unavailable is fail-closed: after a telemetry read with no
\* usable reading the schedule goes to the skip (gate telemetry), the weather
\* gate is not consulted, no Command record is created and no downlink is
\* published for it; and the skip's history write adds one 'skipped' entry
\* and increments skipped.
C12_TelemetryFailClosed ==
    /\ []((sched[T].resp.ok /\ TelemetryUnavailable(sched[T].resp.val))
            => /\ sched[T].gate = "telemetry"
               /\ ~sched[T].moisture.ok
               /\ ~sched[T].forecast.ok
               /\ NothingIssued(T)
               /\ \/ sched[T].pc = "skip_history"
                  \/ sched[T].out[sched[T].schedule_id] = "skipped"
                  \/ sched[T].raised = "skip_history")
    /\ [][(/\ sched[T].pc = "skip_history" /\ sched[T].gate = "telemetry"
           /\ sched'[T].pc = "loop")
          => SkipRecorded(T)]_vars

\* C12 witness: the schedule of a device with weather control on was skipped
\* after a read error, without a forecast having been fetched.
C12_Witness ==
    /\ sched[T].resp.ok /\ sched[T].resp.val.err
    /\ sched[T].schedule_id = "s2"
    /\ DeviceDocs["d2"].enable_weather_control
    /\ sched[T].out["s2"] = "skipped"
    /\ sched[T].skipped = 1
    /\ ~sched[T].forecast.ok

\* C13. Schedule issuer publish failure: once the handling of a publish that
\* raised is over, the Command record is still there, created by this tick,
\* its status is publish_failed with an error detail, and the device's
\* history holds an 'error' entry for the command.
C13_PublishFailureMarked ==
    \A sid \in ScheduleIds :
        sched[T].out[sid] = "publish_error"
        => /\ Exists(cmds, PathOf(T, sid))
           /\ creators[PathOf(T, sid)] = {sched[T].tick}
           /\ cmds[PathOf(T, sid)].status = "publish_failed"
           /\ Has(cmds[PathOf(T, sid)], "error")
           /\ Cardinality(HistoryEntries(ScheduleDocs[sid].device,
                              build_command_id(sid, sched[T].now_local), "error")) = 1

\* C13 case: the publish raised, the 'error' entry is written, and the record
\* this tick created still reads pending.
C13_StillPending ==
    \E sid \in ScheduleIds :
        /\ sched[T].out[sid] = "publish_error"
        /\ creators[PathOf(T, sid)] = {sched[T].tick}
        /\ cmds[PathOf(T, sid)].status = "pending"
        /\ ~Has(cmds[PathOf(T, sid)], "error")
        /\ Cardinality(HistoryEntries(ScheduleDocs[sid].device,
                           build_command_id(sid, sched[T].now_local), "error")) = 1

\* The outcomes the handler counts in errors.
ErrorOutcomes == {"no_device", "create_error", "publish_error", "history_error"}

\* C14. Per-schedule failure isolation: an invocation that reached the store
\* at its start ends with statusCode 200 after every matched schedule has
\* been evaluated to an outcome, the schedules whose processing raised being
\* the ones counted in errors.
C14_FailureIsolation ==
    (sched[T].pc = "done" /\ sched[T].raised # "store")
    => /\ sched[T].statusCode = 200
       /\ \A sid \in ScheduleIds :
            ScheduleMatches(sid, sched[T].now_local)
            => sched[T].out[sid] \notin {"none", "aborted"}
       /\ sched[T].errors
            = Cardinality({ sid \in ScheduleIds : sched[T].out[sid] \in ErrorOutcomes })

\* C14 case: the history write of the skip of s2 raised; the invocation
\* returned 500 and the matched schedule s3 was never evaluated.
C14_SiblingDropped ==
    /\ sched[T].pc = "done" /\ sched[T].statusCode = 500
    /\ sched[T].raised = "skip_history"
    /\ sched[T].out["s2"] = "aborted"
    /\ ScheduleMatches("s3", sched[T].now_local)
    /\ sched[T].out["s3"] = "none"

\* The forecast could not be read: the request failed or an entry of the list
\* is not a number.
ForecastUnreadable(f) == f.err \/ \E i \in DOMAIN f.probs : f.probs[i].kind = "str"

\* C15. Weather Gate fails open: once the gate has been consulted, the
\* schedule either proceeds or is skipped for weather; a failed or unreadable
\* forecast and an empty one proceed; a skip comes only from a forecast that
\* was read and has an entry at or above the threshold.
C15_WeatherFailsOpen ==
    sched[T].forecast.ok
    => /\ sched[T].gate \in {"proceed", "weather"}
       /\ sched[T].raised # "weather"
       /\ ((ForecastUnreadable(sched[T].forecast.val) \/ sched[T].forecast.val.probs = << >>)
             => sched[T].gate = "proceed")
       /\ (sched[T].gate = "weather"
             => /\ ~ForecastUnreadable(sched[T].forecast.val)
                /\ \E i \in DOMAIN sched[T].forecast.val.probs :
                     /\ sched[T].forecast.val.probs[i].kind = "num"
                     /\ sched[T].forecast.val.probs[i].n >= RAIN_SKIP_PROB)

\* C15 witness: the forecast request failed and the schedule was executed.
C15_Witness ==
    /\ sched[T].forecast.ok /\ sched[T].forecast.val.err
    /\ sched[T].schedule_id = "s2"
    /\ sched[T].out["s2"] = "executed"

\* The report lacks a required field: device_id, command_id or status is
\* absent, empty or blank.
ReportLacksField(ack) ==
    \E k \in {"device_id", "command_id", "status"} : ~Has(ack, k) \/ ack[k] \in {"", "  "}

\* C16. Acknowledgment validation: a report that lacks a non-empty device_id,
\* command_id or status is answered ok = false, missing_fields, and its
\* handling leaves the command store and the history as they were; every
\* other report is answered ok.
C16_AckValidation ==
    [][lastAck'.n = lastAck.n + 1
         => IF ReportLacksField(StepReport)
            THEN /\ ~lastAck'.ok /\ lastAck'.error = "missing_fields"
                 /\ ~lastAck'.persisted
                 /\ cmds' = cmds /\ history' = history
            ELSE lastAck'.ok]_vars

\* C16 witness: a report without command_id was rejected after a record and
\* a history entry had been written for the device.
C16_Witness ==
    /\ ~lastAck.ok /\ lastAck.error = "missing_fields"
    /\ Has(lastAck.event, "device_id") /\ ~Has(lastAck.event, "command_id")
    /\ Exists(cmds, CmdPath("d1", "c1"))
    /\ Exists(history.docs, AckPath("d1", "c1"))

\* C17. Acknowledgment before creation: a valid report for a (device, command)
\* pair with no record is answered ok, and with the store reachable its
\* handling creates the record, which carries the pair and the report's
\* canonical status; a terminal status also gets its history entry.
C17_AckBeforeCreation ==
    [][(/\ lastAck'.n = lastAck.n + 1
        /\ ~ReportLacksField(StepReport)
        /\ ~Exists(cmds, CmdPath(AckDeviceId(StepReport), AckCommandId(StepReport))))
         => /\ lastAck'.ok /\ lastAck'.error = "none"
            /\ lastAck'.persisted
                 => /\ Exists(cmds', StepPath)
                    /\ StepAfter.status = AckStatus(StepReport)
                    /\ StepAfter.last_status = AckStatus(StepReport)
                    /\ StepAfter.device_id = AckDeviceId(StepReport)
                    /\ StepAfter.command_id = AckCommandId(StepReport)
                    /\ AckStatus(StepReport) \in {"done", "failed"}
                         => Exists(history'.docs, AckPath(AckDeviceId(StepReport),
                                                          AckCommandId(StepReport)))]_vars

\* C17 witness: the store held no record at all, and the first report handled
\* left a record for its pair whose status is the report's.
C17_Witness ==
    /\ lastAck.n = 1 /\ lastAck.ok /\ lastAck.persisted
    /\ DOMAIN cmds = {LastAckPath}
    /\ ~Has(cmds[LastAckPath], "created_at")
    /\ cmds[LastAckPath].status = LastAckCanonical

\* The target moisture of the device of the schedule invocation p processed
\* last.
LastTarget(p) == DeviceDocs[ScheduleDocs[sched[p].schedule_id].device].target_soil_moisture

\* C20. Threshold gate: once a usable reading at or above the device's target
\* (equality included) has passed the threshold comparison, the schedule is
\* skipped: no forecast is fetched, no Command record is created and no
\* downlink is published for it, and the skip's history write adds exactly
\* one 'skipped' entry. The Command Issuer is entered only with a reading
\* strictly below the target.
C20_ThresholdGate ==
    /\ []((sched[T].moisture.ok /\ sched[T].pc # "threshold"
           /\ sched[T].moisture.val >= LastTarget(T))
            => /\ sched[T].gate = "threshold"
               /\ ~sched[T].forecast.ok
               /\ NothingIssued(T)
               /\ \/ sched[T].pc = "skip_history"
                  \/ sched[T].out[sched[T].schedule_id] = "skipped"
                  \/ sched[T].raised = "skip_history")
    /\ [](sched[T].pc \in {"weather", "create", "publish", "dup_history", "exec_history"}
            => sched[T].moisture.ok /\ sched[T].moisture.val < LastTarget(T))
    /\ [][(/\ sched[T].pc = "skip_history" /\ sched[T].gate = "threshold"
           /\ sched'[T].pc = "loop")
          => SkipRecorded(T)]_vars

\* C20 witness: a fresh reading equal to the target was skipped, with one
\* history entry and neither a record nor a downlink.
C20_AboveTarget ==
    /\ sched[T].moisture.ok /\ sched[T].moisture.val > LastTarget(T)
    /\ sched[T].out[sched[T].schedule_id] = "skipped"

C20_Witness ==
    /\ sched[T].moisture.ok /\ sched[T].moisture.val = LastTarget(T)
    /\ sched[T].gate = "threshold"
    /\ sched[T].out[sched[T].schedule_id] = "skipped"
    /\ sched[T].skipped = 1
    /\ BagCardinality(history.added) = 1
    /\ cmds = EmptyCol /\ published = EmptyBag

\* The downlinks published so far for the command identifier of payload m.
DownlinksFor(m) == PublishCount(CmdPath(m.device_id, m.command_id))

\* Request r is the one whose create() wrote the record at path.
IsCreator(r, path) == Has(cmds[path], "request") /\ cmds[path].request.request_id = r

\* C18. Manual issuer dedup: for every command identifier at most one
\* downlink is ever published, whatever the number of requests carrying it,
\* one after the other or at the same time; and a step of a request that did
\* not create the record leaves every stored record as it was.
C18_ManualDedup ==
    /\ [](\A m \in BagToSet(published) : DownlinksFor(m) <= 1)
    /\ [][\A r \in Requests : \A path \in DOMAIN cmds :
            (man'[r] # man[r] /\ ~IsCreator(r, path)) => cmds'[path] = cmds[path]]_vars

\* C18 divergence: with every store call answering, three requests with the
\* same device and idempotency key have all been answered and two downlinks
\* were published for their identifier; the first request's publish failed,
\* the second and the third found status publish_failed.
C18_SecondDownlink ==
    /\ \A r \in Requests :
         /\ man[r].pc = "done" /\ ~man[r].store_failed
         /\ man[r].command_id = _command_id_from_idempotency_key("d1", "k1")
    /\ man["r1"].response.statusCode = 500
    /\ man["r2"].existing_status = "publish_failed" /\ man["r2"].pubs = 1
    /\ man["r3"].existing_status = "publish_failed" /\ man["r3"].pubs = 1
    /\ \E m \in BagToSet(published) : DownlinksFor(m) = 2

\* The ownership check of request r ran, for an authenticated user, in one
\* of three situations: the device has no document, the device belongs to
\* another user, the store could not be asked (no client, or the read raised).
NoSuchDevice(r) == man[r].owner_store = "ok" /\ man[r].body.device_id \notin DOMAIN DeviceDocs
OtherOwner(r) ==
    /\ man[r].owner_store = "ok"
    /\ man[r].body.device_id \in DOMAIN DeviceDocs
    /\ DeviceDocs[man[r].body.device_id].owner_uid # man[r].body.user_id
StoreDown(r) == man[r].owner_store \in {"unavailable", "raises"}
OwnershipFailed(r) ==
    /\ man[r].kind \in {"command", "telemetry"}
    /\ man[r].body.user_id # ""
    /\ NoSuchDevice(r) \/ OtherOwner(r) \/ StoreDown(r)

C19_TelemetryWitness ==
    /\ man["r1"].kind = "telemetry" /\ OtherOwner("r1") /\ man["r1"].body.user_id = "u1"
    /\ man["r2"].kind = "telemetry" /\ NoSuchDevice("r2") /\ man["r2"].body.user_id = "u1"
    /\ man["r1"].response = man["r2"].response
    /\ man["r1"].response.statusCode = 403

\* Weather control is enabled on the device of the schedule invocation p
\* processed last.
LastWeatherEnabled(p) == DeviceDocs[ScheduleDocs[sched[p].schedule_id].device].enable_weather_control

\* C21. Weather gate in the evaluator: the forecast is fetched only for a
\* device with weather control enabled; when the gate answers skip the
\* schedule is skipped, with one 'skipped' history entry of source weather_ai
\* and neither a Command record nor a downlink; when it answers proceed, and
\* when weather control is disabled (no forecast is fetched), the evaluation
\* goes on to the Command Issuer.
C21_WeatherGateEvaluator ==
    /\ [](sched[T].forecast.ok
            => /\ LastWeatherEnabled(T)
               /\ IF check_rain_forecast(sched[T].forecast.val).skip
                  THEN /\ sched[T].gate = "weather"
                       /\ NothingIssued(T)
                       /\ \/ sched[T].pc = "skip_history"
                          \/ sched[T].out[sched[T].schedule_id] = "skipped"
                          \/ sched[T].raised = "skip_history"
                  ELSE /\ sched[T].gate = "proceed"
                       /\ sched[T].out[sched[T].schedule_id] # "skipped"
                       /\ sched[T].pc # "skip_history")
    /\ [][(sched[T].pc = "weather" /\ sched'[T].pc # "weather")
            => /\ sched'[T].forecast.ok
               /\ sched'[T].pc = IF check_rain_forecast(sched'[T].forecast.val).skip
                                 THEN "skip_history" ELSE "create"]_vars
    /\ [][(/\ sched[T].pc = "threshold" /\ sched'[T].pc \notin {"threshold", "skip_history"}
           /\ ~LastWeatherEnabled(T))
            => sched'[T].pc = "create" /\ ~sched'[T].forecast.ok]_vars
    /\ [][(/\ sched[T].pc = "skip_history" /\ sched[T].gate = "weather"
           /\ sched'[T].pc = "loop")
            => /\ SkipRecorded(T)
               /\ \E doc \in BagToSet(history'.added) :
                    /\ doc.source = "weather_ai"
                    /\ CopiesIn(doc, history'.added) = CopiesIn(doc, history.added) + 1]_vars

\* C21 witness: with weather control on, dry soil and a forecast of rain, the
\* schedule was skipped with its history entry and nothing was issued.
C21_Witness ==
    /\ sched[T].forecast.ok /\ check_rain_forecast(sched[T].forecast.val).skip
    /\ sched[T].schedule_id = "s2"
    /\ sched[T].out["s2"] = "skipped" /\ sched[T].skipped = 1
    /\ \E doc \in BagToSet(history.added) : doc.source = "weather_ai"
    /\ cmds = EmptyCol /\ published = EmptyBag

\* C21, proceed side: with weather control on and a forecast below the
\* threshold the schedule was executed.
C21_ProceedWitness ==
    /\ sched[T].forecast.ok /\ ~sched[T].forecast.val.err
    /\ sched[T].forecast.val.probs # << >>
    /\ ~check_rain_forecast(sched[T].forecast.val).skip
    /\ sched[T].out["s2"] = "executed"

\* The step publishes payload m, and the step writes the history document at
\* path (creates it or changes it).
PublishedBy(m) == CopiesIn(m, published') > CopiesIn(m, published)
HistoryWrittenAt(path) ==
    /\ path \in DOMAIN history'.docs
    /\ path \notin DOMAIN history.docs \/ history.docs[path] # history'.docs[path]

\* C22. Issue ordering in the schedule issuer: a step that publishes a
\* downlink is taken by an invocation whose create() of that command's record
\* succeeded, and the record is in the store; a step that writes an
\* 'execution' history entry comes after a downlink for that command was
\* published; every published identifier has a record, and every 'execution'
\* entry is for a published command.
C22_IssueOrdering ==
    /\ [][\A m \in BagToSet(published') :
            PublishedBy(m)
              => /\ Exists(cmds, CmdPath(m.device_id, m.command_id))
                 /\ \E p \in Invocations :
                      /\ sched'[p] # sched[p]
                      /\ sched[p].tick \in creators[CmdPath(m.device_id, m.command_id)]]_vars
    /\ [][\A path \in DOMAIN history'.docs :
            (HistoryWrittenAt(path) /\ history'.docs[path].type = "execution")
              => \E m \in BagToSet(published) :
                   LogPath(m.device_id, m.command_id) = path]_vars
    /\ [](\A m \in BagToSet(published) : Exists(cmds, CmdPath(m.device_id, m.command_id)))
    /\ [](\A path \in DOMAIN history.docs :
            history.docs[path].type = "execution"
              => \E m \in BagToSet(published) : LogPath(m.device_id, m.command_id) = path)

\* C22 witness: a command was created, published and logged as executed,
\* while another command's publish failed and left an 'error' entry only.
C22_Witness ==
    /\ \E m \in BagToSet(published) :
         /\ Exists(cmds, CmdPath(m.device_id, m.command_id))
         /\ Exists(history.docs, LogPath(m.device_id, m.command_id))
         /\ history.docs[LogPath(m.device_id, m.command_id)].type = "execution"
    /\ \E path \in DOMAIN history.docs :
         /\ history.docs[path].type = "error"
         /\ \A m \in BagToSet(published) : LogPath(m.device_id, m.command_id) # path

\* The fields _firestore_mark_publish_failed may change.
MarkedFieldNames == {"status", "updated_at", "error"}

\* C23. Manual issuer publish failure: when the publish of a request raised
\* and the record exists, the request ends with 500 without having published
\* anything; with the store answering the marking write, that step leaves
\* the record in place with every other field as it was (created_at, request,
\* requested_action, ...), status publish_failed and an error detail. A
\* marking write that raises is swallowed: the record is then left untouched.
C23_ManualPublishFailure ==
    /\ [][\A r \in Requests :
            (man[r].pc = "mark_failed" /\ man'[r] # man[r])
              => /\ man'[r].pc = "done"
                 /\ man'[r].response.statusCode = 500
                 /\ man'[r].pubs = 0
                 /\ published' = published
                 /\ Exists(cmds, ManCmdPath(r))
                      => \/ man'[r].store_failed /\ cmds' = cmds
                         \/ /\ DOMAIN cmds' = DOMAIN cmds
                            /\ \A path \in DOMAIN cmds \ {ManCmdPath(r)} : cmds'[path] = cmds[path]
                            /\ \A k \in DOMAIN cmds[ManCmdPath(r)] \ MarkedFieldNames :
                                 /\ Has(cmds'[ManCmdPath(r)], k)
                                 /\ cmds'[ManCmdPath(r)][k] = cmds[ManCmdPath(r)][k]
                            /\ cmds'[ManCmdPath(r)].status = "publish_failed"
                            /\ Has(cmds'[ManCmdPath(r)], "error")]_vars
    /\ [](\A r \in Requests :
            (man[r].response.statusCode = 500 /\ ~man[r].store_failed)
              => /\ man[r].pubs = 0
                 /\ Exists(cmds, ManCmdPath(r))
                 /\ cmds[ManCmdPath(r)].status = "publish_failed"
                 /\ Has(cmds[ManCmdPath(r)], "error"))
    /\ [][\A r \in Requests :
            (man[r].pc = "publish" /\ man'[r] # man[r] /\ published' = published)
              => man'[r].pc = "mark_failed"]_vars

\* C23 witness: request r1 created the record, its publish raised, and it was
\* answered 500; the record it created reads publish_failed with the error.
C23_Witness ==
    /\ man["r1"].pc = "done" /\ man["r1"].response.statusCode = 500
    /\ man["r1"].created_new /\ ~man["r1"].store_failed /\ man["r1"].pubs = 0
    /\ Exists(cmds, ManCmdPath("r1"))
    /\ IsCreator("r1", ManCmdPath("r1"))
    /\ cmds[ManCmdPath("r1")].status = "publish_failed"
    /\ cmds[ManCmdPath("r1")].error.type = "iot_publish_error"
    /\ published = EmptyBag

\* What the report of the step says: it carries an error value, it carries
\* ok = false.
StepHasError == Has(StepReport, "error")
StepOkFalse == Has(StepReport, "ok") /\ StepReport.ok = FALSE

\* C24. Result computation: for every persisted terminal report the stored
\* result is failed if the report carries an error value, or ok = false, or
\* its canonical status is failed; and it is success exactly when the
\* canonical status is done, the report carries no error value and ok is not
\* false.
C24_ResultComputation ==
    [][(AckPersistedStep /\ AckStatus(StepReport) \in {"done", "failed"})
         => /\ (StepHasError \/ StepOkFalse \/ AckStatus(StepReport) = "failed")
                 => StepAfter.result = "failed"
            /\ StepAfter.result = "success"
                 <=> (AckStatus(StepReport) = "done" /\ ~StepHasError /\ ~StepOkFalse)]_vars

\* The report of the step carries an error value that is not empty.
StepHasNonEmptyError == Has(StepReport, "error") /\ StepReport.error # ""

\* C24, amended. For every persisted terminal report the stored result is
\* failed if the report carries a non-empty error value, or ok = false, or
\* its canonical status is failed; it is success exactly when the canonical
\* status is done, the error value is absent or empty and ok is not false.
C24_ResultNonEmptyError ==
    [][(AckPersistedStep /\ AckStatus(StepReport) \in {"done", "failed"})
         => /\ (StepHasNonEmptyError \/ StepOkFalse \/ AckStatus(StepReport) = "failed")
                 => StepAfter.result = "failed"
            /\ StepAfter.result = "success"
                 <=> (/\ AckStatus(StepReport) = "done"
                      /\ ~StepHasNonEmptyError /\ ~StepOkFalse)
            /\ StepAfter.result \in {"success", "failed"}]_vars

\* C24 witness: a done report with ok = false and no error value was stored
\* with result failed, after a done report with ok = true stored success.
C24_Witness ==
    /\ lastAck.n = 2 /\ lastAck.persisted /\ LastAckCanonical = "done"
    /\ Has(lastAck.event, "ok") /\ lastAck.event.ok = FALSE
    /\ ~Has(lastAck.event, "error")
    /\ cmds[LastAckPath].result = "failed"

\* C24, the empty error value: the last report was done with error "", and
\* the record stores that error value with result success.
C24_SuccessWithError ==
    /\ lastAck.persisted /\ LastAckCanonical = "done"
    /\ Has(_parse_iot_payload(lastAck.event), "error")
    /\ Has(cmds[LastAckPath], "error")
    /\ cmds[LastAckPath].result = "success"

\* C25. Terminal-only effects: a persisted report whose canonical status is
\* done or failed sets result and finished_at on the record and leaves a
\* history entry for the command; a persisted report with status received,
\* started or unknown leaves the history as it was and leaves result and
\* finished_at as the record had them (absent when it had none).
C25_TerminalOnlyEffects ==
    [][AckPersistedStep
         => IF AckStatus(StepReport) \in {"done", "failed"}
            THEN /\ Has(StepAfter, "result") /\ StepAfter.result \in {"success", "failed"}
                 /\ Has(StepAfter, "finished_at") /\ StepAfter.finished_at = clock
                 /\ Exists(history'.docs, AckPath(AckDeviceId(StepReport),
                                                  AckCommandId(StepReport)))
            ELSE /\ AckStatus(StepReport) \in {"received", "started", "unknown"}
                 /\ history' = history
                 /\ SameField(StepBefore, StepAfter, "result")
                 /\ SameField(StepBefore, StepAfter, "finished_at")]_vars

\* C25 witness: after a received, a started and an unrecognised status the
\* record has no result and there is no history entry.
C25_Witness ==
    /\ lastAck.n = 3 /\ lastAck.persisted
    /\ LastAckCanonical = "unknown"
    /\ cmds[LastAckPath].status = "unknown"
    /\ Has(cmds[LastAckPath], "received_at") /\ Has(cmds[LastAckPath], "started_at")
    /\ ~Has(cmds[LastAckPath], "result") /\ ~Has(cmds[LastAckPath], "finished_at")
    /\ history = EmptyHistory

\* The timestamp fields a report with the given canonical status sets.
StatusTimeFields(status) ==
    {StatusTsField(status)}
    \cup (CASE status = "received" -> {"received_at"}
            [] status = "started" -> {"started_at"}
            [] status \in {"done", "failed"} -> {"finished_at"}
            [] OTHER -> {})

\* C26. Per-status first-seen timestamps: a persisted report sets the
\* timestamps of its status to the time it is handled when the record does
\* not have them yet, and leaves them as they are when the record already
\* has them (the status was observed before).
C26_FirstSeenTimestamps ==
    [][AckPersistedStep
         => \A f \in StatusTimeFields(AckStatus(StepReport)) :
              /\ Has(StepAfter, f)
              /\ StepAfter[f] = IF Has(StepBefore, f) THEN StepBefore[f] ELSE clock]_vars

\* C26 divergence: the same started report was handled twice, ClockStep
\* seconds apart, and the record's started timestamps are those of the second.
C26_SecondSeen ==
    /\ lastAck.n = 2 /\ lastAck.repeated /\ LastAckCanonical = "started"
    /\ clock = ClockStart + 2 * ClockStep
    /\ cmds[LastAckPath].started_at = ClockStart + ClockStep
    /\ cmds[LastAckPath]["status_ts.started"] = ClockStart + ClockStep

\* The canonical status of a trimmed, lower-cased, non-empty status text.
CanonicalOf(text) ==
    CASE text = "error" -> "failed"
      [] text \in {"received", "started", "done", "failed"} -> text
      [] OTHER -> "unknown"

\* C27. Status canonicalization: every report with the three required
\* fields is answered ok with the canonical status of its trimmed,
\* lower-cased status text (error -> failed; received, started, done, failed
\* -> themselves; anything else -> unknown), and when it is persisted the
\* record's status is that canonical status, unknown included.
C27_StatusCanonicalization ==
    [][(lastAck'.n = lastAck.n + 1 /\ ~ReportLacksField(StepReport))
         => /\ lastAck'.ok
            /\ lastAck'.status = CanonicalOf(StripLower(StepReport.status))
            /\ lastAck'.persisted
                 => /\ StepAfter.status = CanonicalOf(StripLower(StepReport.status))
                    /\ Has(StepAfter, StatusTsField(CanonicalOf(StripLower(StepReport.status))))]_vars

\* C27 witness: a report with an unrecognised status text was persisted as
\* unknown, after a report with status ERROR was persisted as failed.
C27_Witness ==
    /\ lastAck.n = 2 /\ lastAck.ok /\ lastAck.persisted
    /\ Has(lastAck.event, "status") /\ lastAck.event.status = "rebooting"
    /\ cmds[LastAckPath].status = "unknown"
    /\ Has(cmds[LastAckPath], "status_ts.unknown")
    /\ Has(cmds[LastAckPath], "status_ts.failed")
    /\ ~Has(cmds[LastAckPath], "status_ts.done")
    /\ ~Has(cmds[LastAckPath], "created_at")

\* Request r got as far as building its command, and its inputs.
Built(r) == man[r].kind = "command" /\ man[r].command_id # << >>
HasKey(r) == man[r].body.key # ""
HasBodyId(r) == man[r].body.command_id # << >>

\* C28. Manual command identity: every request that carries an idempotency
\* key gets the identifier "man-" + hash(device_id + ":" + key), so two
\* requests with the same device and key get the same identifier; a request
\* without a key gets an identifier no other request has.
C28_ManualIdentity ==
    \A a \in OwnerRequests, b \in OwnerRequests :
        (Built(a) /\ Built(b))
          => /\ HasKey(a)
                  => man[a].command_id
                       = <<"man-", Sha1_16(<<man[a].body.device_id, ":", man[a].body.key>>)>>
             /\ (/\ HasKey(a) /\ man[a].body.key = man[b].body.key
                 /\ man[a].body.device_id = man[b].body.device_id)
                  => man[a].command_id = man[b].command_id
             /\ (~HasKey(a) /\ a # b) => man[a].command_id # man[b].command_id

\* C28, amended: the same for requests whose body carries no command_id; a
\* command_id in the body is the identifier, key or no key.
C28_ManualIdentityNoBodyId ==
    \A a \in OwnerRequests, b \in OwnerRequests :
        (Built(a) /\ Built(b))
          => /\ HasBodyId(a) => man[a].command_id = man[a].body.command_id
             /\ (HasKey(a) /\ ~HasBodyId(a))
                  => man[a].command_id
                       = <<"man-", Sha1_16(<<man[a].body.device_id, ":", man[a].body.key>>)>>
             /\ (/\ HasKey(a) /\ ~HasBodyId(a) /\ ~HasBodyId(b)
                 /\ man[a].body.key = man[b].body.key
                 /\ man[a].body.device_id = man[b].body.device_id)
                  => man[a].command_id = man[b].command_id
             /\ (~HasKey(a) /\ ~HasBodyId(a) /\ a # b) => man[a].command_id # man[b].command_id

\* C28 witness: two requests with the same device and key and different
\* actions got the same derived identifier, the second found the record.
C28_Witness ==
    /\ Built("r1") /\ Built("r2")
    /\ HasKey("r1") /\ ~HasBodyId("r1") /\ ~HasBodyId("r2")
    /\ man["r1"].body.key = man["r2"].body.key
    /\ man["r1"].body.action # man["r2"].body.action
    /\ man["r1"].command_id = man["r2"].command_id
    /\ man["r2"].pc = "done" /\ man["r2"].existing_status = "pending"

\* C29. Duration bound: every Command record created by either issuer has a
\* requested_duration between 0 and MAX_DURATION_SECONDS inclusive.
C29_DurationBound ==
    \A path \in DOMAIN cmds :
        (Has(cmds[path], "requested_duration") /\ Has(cmds[path], "origin"))
          => /\ cmds[path].requested_duration >= 0
             /\ cmds[path].requested_duration <= MAX_DURATION_SECONDS

\* C29 witness of the divergence: the scheduler created a record, and
\* published its downlink, with a duration above MAX_DURATION_SECONDS.
C29_OverlongSchedule ==
    \E path \in DOMAIN cmds :
        /\ Has(cmds[path], "origin") /\ cmds[path].origin = "schedule"
        /\ cmds[path].requested_duration > MAX_DURATION_SECONDS
        /\ \E m \in DOMAIN published :
               /\ m.command_id = cmds[path].command_id
               /\ m.duration = cmds[path].requested_duration

\* Request r has been answered 400, 401 or 403.
RejectedCodes == {400, 401, 403}
Rejected(rec) == rec.kind = "command" /\ rec.pc = "done" /\ rec.response.statusCode \in RejectedCodes

\* C30. Rejected manual requests have no effect: the step that answers a
\* command request with 400, 401 or 403 is the request's only step, and it
\* leaves every Command record, the history and the published downlinks as
\* they were; the request never created a record nor published.
C30_RejectedNoEffect ==
    /\ [](\A r \in OwnerRequests :
             Rejected(man[r])
               => /\ ~man[r].created_new /\ man[r].pubs = 0
                  /\ man[r].command_id = << >>)
    /\ [][\A r \in OwnerRequests :
             (Rejected(man'[r]) /\ ~Rejected(man[r]))
               => /\ man[r].pc = "idle"
                  /\ cmds' = cmds /\ published' = published /\ history' = history]_vars

\* C30 witness: after one request created a record and published, another
\* was answered 403, and the store holds the first request's record alone.
C30_Witness ==
    /\ man["r1"].kind = "command" /\ man["r1"].pc = "done"
    /\ man["r1"].response.statusCode = 200 /\ man["r1"].pubs = 1
    /\ Rejected(man["r2"]) /\ man["r2"].response.statusCode = 403
    /\ DOMAIN cmds = {ManCmdPath("r1")}
    /\ BagCardinality(published) = 1

\* Requests answered 400 and 401 occur too.
C30_InvalidAndUnauthorized ==
    /\ Rejected(man["r1"]) /\ man["r1"].response.statusCode = 400
    /\ Rejected(man["r2"]) /\ man["r2"].response.statusCode = 401
    /\ DOMAIN cmds = {}

\* The forms of the parse chain: the envelope is flat, a field holds a text
\* with a JSON object, a base64 text of one, or an object.
IsFlat(e) == Has(e, "device_id") /\ Has(e, "status") /\ Has(e, "command_id")
HoldsJsonText(e, k) == Has(e, k) /\ e[k].form = "json"
HoldsBase64Json(e, k) == Has(e, k) /\ e[k].form = "b64json"
HoldsObject(e, k) == Has(e, k) /\ e[k].form = "dict"
NonEmptyObj(e, k) == DOMAIN e[k].obj # {}

\* The payload the chain takes from envelope e, where Interpretable(e, k)
\* tells whether the text under key k counts as a JSON object.
ChainResult(e, Interpretable(_, _)) ==
    IF IsFlat(e) THEN e
    ELSE IF HoldsJsonText(e, "payload") /\ Interpretable(e, "payload") THEN e.payload.obj
    ELSE IF HoldsBase64Json(e, "payload") /\ Interpretable(e, "payload") THEN e.payload.obj
    ELSE IF \E k \in {"message", "data", "body"} :
               HoldsObject(e, k) \/ (HoldsJsonText(e, k) /\ Interpretable(e, k))
    THEN LET First(k) == HoldsObject(e, k) \/ (HoldsJsonText(e, k) /\ Interpretable(e, k))
         IN  IF First("message") THEN e.message.obj
             ELSE IF First("data") THEN e.data.obj
             ELSE e.body.obj
    ELSE e

AnyObject(e, k) == TRUE

\* C31. Payload parse chain: the parsed report is the first interpretable
\* form in the order flat envelope, payload as a JSON object, payload as
\* base64 of a JSON object, the first of message, data, body that holds an
\* object or a JSON-object text, else the whole envelope.
C31_ParseChain ==
    lastAck.n > 0 => lastAck.parsed = ChainResult(lastAck.event, AnyObject)

\* C31, amended: the same chain where a text counts only when the JSON object
\* it holds is not empty.
C31_ParseChainNonEmpty ==
    lastAck.n > 0 => lastAck.parsed = ChainResult(lastAck.event, NonEmptyObj)

\* C31 witness: the payload field is a text that is neither JSON nor base64
\* of JSON, message is not a JSON object either, and the report is taken
\* from the data key although body holds an object too.
C31_Witness ==
    /\ lastAck.n > 0
    /\ ~IsFlat(lastAck.event)
    /\ Has(lastAck.event, "payload") /\ lastAck.event.payload.form = "text"
    /\ Has(lastAck.event, "message") /\ lastAck.event.message.form = "text"
    /\ Has(lastAck.event, "body")
    /\ lastAck.parsed = ReportAt("datadict")
    /\ lastAck.ok

\* C31: an envelope whose payload text holds the empty JSON object is not
\* parsed as that object; the report under message is taken.
C31_EmptyObjectSkipped ==
    /\ lastAck.n > 0
    /\ HoldsJsonText(lastAck.event, "payload") /\ ~NonEmptyObj(lastAck.event, "payload")
    /\ lastAck.parsed = ReportAt("messagedict")

\* The counters invocation p returns, and the schedules its query matched.
CounterSum(p) == sched[p].executed + sched[p].skipped + sched[p].duplicates + sched[p].errors
MatchedCount(p) == Len(MatchedSchedules(sched[p].now_local))
Completed(p) == sched[p].pc = "done" /\ sched[p].statusCode = 200

\* C32. Counter partition: when a tick completes with status 200, executed +
\* skipped + duplicates + errors equals the number of matched schedules.
C32_CounterPartition ==
    \A p \in Invocations : Completed(p) => CounterSum(p) = MatchedCount(p)

\* C32 witness of the divergence: a tick completed with status 200 after a
\* trigger was counted as duplicate and, its history write having raised, as
\* error too, so that the counters add up to more than the matched schedules.
C32_CountedTwice ==
    \E p \in Invocations :
        /\ Completed(p)
        /\ sched[p].duplicates > 0 /\ sched[p].errors > 0
        /\ \E sid \in ScheduleIds : sched[p].out[sid] = "history_error"
        /\ CounterSum(p) > MatchedCount(p)

\* Invocation p holds the answer of the Telemetry Gate for its schedule.
GateAnswered(p) == sched[p].schedule_id # "none" /\ sched[p].resp.ok

\* C33. Telemetry age range: the Telemetry Gate returns a usable moisture
\* value only when the age of the newest reading lies between 0 and
\* TELEMETRY_MAX_AGE_SEC inclusive.
C33_TelemetryAgeRange ==
    \A p \in Invocations :
        (GateAnswered(p) /\ sched[p].moisture.ok)
          => /\ sched[p].tele_age.ok
             /\ sched[p].tele_age.val >= 0
             /\ sched[p].tele_age.val <= TELEMETRY_MAX_AGE_SEC

\* C33 witness of the divergence: a reading stamped later than now was
\* returned as usable and the command was issued on it.
C33_FutureReadingUsed ==
    \E p \in Invocations :
        /\ GateAnswered(p) /\ sched[p].moisture.ok
        /\ sched[p].tele_age.ok /\ sched[p].tele_age.val < 0
        /\ sched[p].out[sched[p].schedule_id] = "executed"

\* C34. Status mirror: on every Command record, status equals last_status
\* after every operation that writes the record.
C34_StatusMirror ==
    \A path \in DOMAIN cmds :
        Has(cmds[path], "status")
          => Has(cmds[path], "last_status") /\ cmds[path].status = cmds[path].last_status

\* C34 witness of the divergence: the record a request created was marked
\* after its publish raised; its status is publish_failed and its last_status
\* is still pending.
C34_MarkedNotMirrored ==
    \E r \in OwnerRequests :
        /\ man[r].kind = "command" /\ man[r].pc = "done" /\ man[r].response.statusCode = 500
        /\ ManCmdPath(r) \in DOMAIN cmds
        /\ IsCreator(r, ManCmdPath(r))
        /\ cmds[ManCmdPath(r)].status = "publish_failed"
        /\ cmds[ManCmdPath(r)].last_status = "pending"

\* C35. Raw-reason consistency: a Command record carries reason_raw only when
\* its current reason is duration_elapsed.
C35_RawReasonConsistency ==
    \A path \in DOMAIN cmds :
        Has(cmds[path], "reason_raw")
          => Has(cmds[path], "reason") /\ cmds[path].reason = "duration_elapsed"

\* C35 witness of the divergence: after a report whose reason was rewritten,
\* a later report stored another reason and the record still carries the
\* reason_raw of the earlier one.
C35_StaleRawReason ==
    /\ lastAck.n = 2 /\ lastAck.persisted
    /\ Has(lastAck.event, "reason") /\ lastAck.event.reason = "low_battery"
    /\ LastAckPath \in DOMAIN cmds
    /\ cmds[LastAckPath].reason = "low_battery"
    /\ Has(cmds[LastAckPath], "reason_raw") /\ cmds[LastAckPath].reason_raw = "timeout"

\* Request r publishes its downlink in this step.
PublishesNow(r) == man[r].pc = "publish" /\ man'[r].pubs = man[r].pubs + 1

\* C36. publish_failed reflects the last publish attempt: once a publish for
\* an identifier has succeeded, the record of that identifier does not have
\* status publish_failed.
C36_PublishFailedIsLast ==
    [][\A r \in OwnerRequests :
          (PublishesNow(r) /\ ManCmdPath(r) \in DOMAIN cmds')
            => cmds'[ManCmdPath(r)].status # "publish_failed"]_vars

\* C36 witness of the divergence: with every store call answering, the first
\* request's publish failed and was marked, the second found publish_failed,
\* published and was answered 200, and the record still says publish_failed.
C36_StillPublishFailed ==
    /\ \A r \in OwnerRequests : man[r].kind = "command" /\ man[r].pc = "done" /\ ~man[r].store_failed
    /\ man["r1"].response.statusCode = 500 /\ man["r1"].pubs = 0
    /\ man["r2"].existing_status = "publish_failed"
    /\ man["r2"].response.statusCode = 200 /\ man["r2"].pubs = 1
    /\ ManCmdPath("r2") = ManCmdPath("r1")
    /\ cmds[ManCmdPath("r2")].status = "publish_failed"

\* Invocation p counts its schedule as duplicate in this step.
CountsDuplicate(p) == sched'[p].duplicates = sched[p].duplicates + 1

\* The record was written by an issuer create.
IssuerCreated(doc) == Has(doc, "origin") /\ Has(doc, "created_at") /\ Has(doc, "requested_action")

\* C37. Duplicate implies issuer-created: whenever the schedule issuer counts
\* a trigger as duplicate, a Command record written by an issuer create
\* exists for its identifier.
C37_DuplicateImpliesCreated ==
    [][\A p \in Invocations :
          CountsDuplicate(p)
            => CurCmdPath(p) \in DOMAIN cmds /\ IssuerCreated(cmds[CurCmdPath(p)])]_vars

\* C37 witness of the divergence: a report was merged into a new record
\* before the first create; the tick counted the trigger as duplicate and
\* returned, no issuer ever created the record and no downlink was published.
C37_NeverIssued ==
    /\ sched["i1"].pc = "done" /\ sched["i1"].statusCode = 200
    /\ sched["i1"].out["s2"] = "duplicate" /\ sched["i1"].tick = 1
    /\ PathOf("i1", "s2") \in DOMAIN cmds
    /\ ~IssuerCreated(cmds[PathOf("i1", "s2")])
    /\ creators[PathOf("i1", "s2")] = {}
    /\ PublishCount(PathOf("i1", "s2")) = 0

\* The creation fields an acknowledgment leaves alone.
FrameFieldNames == {"origin", "created_at", "schedule", "mqtt", "requested_by", "schema_version"}

\* C38. Acknowledgment frame: processing a report never deletes a Command
\* record and leaves the creation fields origin, created_at, schedule, mqtt,
\* requested_by and schema_version of every record as they were.
C38_AckFrame ==
    [][lastAck'.n = lastAck.n + 1
         => \A path \in DOMAIN cmds :
               /\ path \in DOMAIN cmds'
               /\ \A k \in FrameFieldNames : SameField(cmds[path], cmds'[path], k)]_vars

\* C38 witness: a terminal report was merged into the record the issuer
\* created, which still has its creation fields.
C38_Witness ==
    /\ lastAck.persisted /\ lastAck.status = "done"
    /\ LastAckPath \in DOMAIN cmds
    /\ cmds[LastAckPath].status = "done" /\ Has(cmds[LastAckPath], "finished_at")
    /\ cmds[LastAckPath].origin = "manual"
    /\ cmds[LastAckPath].created_at = ClockStart
    /\ cmds[LastAckPath].requested_by = [user_id |-> "u1"]
    /\ cmds[LastAckPath].schema_version = 1
    /\ Has(cmds[LastAckPath], "mqtt")

\* Request r was answered after its create found a record.
FoundRecord(r) ==
    /\ man[r].kind = "command" /\ man[r].pc = "done"
    /\ man[r].command_id # << >> /\ ~man[r].created_new

\* C39. Manual re-publish condition: with the store answering, a request
\* whose identifier already has a record goes on to publish exactly when the
\* status of that record is publish_failed; for every other status, and when
\* the record cannot be read, it is answered 200 and publishes nothing.
C39_RepublishCondition ==
    /\ [][\A r \in OwnerRequests :
            (man[r].pc = "read_existing" /\ man'[r] # man[r])
              => /\ (man'[r].pc = "publish")
                      <=> (~man'[r].store_failed /\ cmds[ManCmdPath(r)].status = "publish_failed")
                 /\ man'[r].pc # "publish"
                      => /\ man'[r].pc = "done" /\ man'[r].response.statusCode = 200
                         /\ published' = published /\ cmds' = cmds]_vars
    /\ [](\A r \in OwnerRequests :
            FoundRecord(r)
              => IF man[r].existing_status = "publish_failed"
                 THEN \/ man[r].pubs = 1 /\ man[r].response.statusCode = 200
                      \/ man[r].pubs = 0 /\ man[r].response.statusCode = 500
                 ELSE man[r].pubs = 0 /\ man[r].response.statusCode = 200)

\* C39 witness: a request found the record of its identifier in status done
\* and was answered 200 with nothing published.
C39_Witness ==
    /\ FoundRecord("r1")
    /\ man["r1"].existing_status = "done"
    /\ cmds[ManCmdPath("r1")].status = "done"
    /\ man["r1"].response.statusCode = 200 /\ man["r1"].pubs = 0
    /\ published = EmptyBag

\* C39: a request found the record in status publish_failed and published.
C39_RepublishWitness ==
    /\ FoundRecord("r1")
    /\ man["r1"].existing_status = "publish_failed"
    /\ man["r1"].response.statusCode = 200 /\ man["r1"].pubs = 1
    /\ BagCardinality(published) = 1

\* The create-if-absent of request r failed with an error other than
\* already-exists (the only store failure after which a request is still
\* running).
CreateFailed(r) == man[r].pc = "publish" /\ man[r].store_failed

\* C40. Dedup is fail-closed on store errors: a request whose create-if-absent
\* failed with an error other than already-exists does not publish a downlink.
C40_DedupFailClosed ==
    [][\A r \in OwnerRequests : PublishesNow(r) => ~CreateFailed(r)]_vars

\* C40 witness of the divergence: two requests with the same device and
\* idempotency key, the create of each failed with a store error, each
\* published its downlink and was answered 200; no record was written.
C40_BothPublished ==
    /\ \A r \in OwnerRequests :
         /\ man[r].kind = "command" /\ man[r].pc = "done"
         /\ man[r].command_id = _command_id_from_idempotency_key("d1", "k1")
         /\ man[r].store_failed /\ man[r].pubs = 1
         /\ man[r].response.statusCode = 200
    /\ cmds = EmptyCol
    /\ \E m \in BagToSet(published) : DownlinksFor(m) = 2

====
